---- MODULE Spec2Model ----
(***************************************************************************)
(* Reconciliation engine of scylla-pg-cdc: the Row Comparer                *)
(* (src/reconciliation/comparer.py), the Data Differ                       *)
(* (src/reconciliation/differ.py) and the SQL Repair Generator             *)
(* (src/reconciliation/repairer.py).                                       *)
(*                                                                         *)
(* Python strings are sequences of one-character strings.  A Python value  *)
(* is a record [t, s, n, e, items]: t is the runtime type, s the text of   *)
(* str(value) (isoformat() for a datetime), n the number of a numeric      *)
(* value (an int, the units of 1e-5 of a float, the coefficient of a       *)
(* Decimal, the wall-clock hour of a datetime), e the exponent of a        *)
(* Decimal or the UTC offset of a datetime (NoTz when it has none), items  *)
(* the elements of a list or the ordered (k, v) entries of a dict.         *)
(* A Python dict is the sequence of                                        *)
(* its entries [k, v] in insertion order; a row is a dict from field name  *)
(* to value.  A call that raises returns [ok |-> FALSE, exc |-> ...].      *)
(***************************************************************************)
EXTENDS Integers, Sequences, FiniteSets, TLC

VARIABLES
    source_data,      \* rows handed to the differ as the source collection
    target_data,      \* rows handed to the differ as the target collection
    key_field,        \* key specification: [list |-> BOOLEAN, fields |-> <<name, ...>>]
    float_tolerance,  \* RowComparer.float_tolerance of DataDiffer.comparer
    call,             \* the operation invoked and its remaining arguments
    result,           \* what the operation returned or raised
    threads,          \* the compare_rows call each thread is in: its arguments and locals
    scylla,           \* the rows of the ScyllaDB table, in the order a query returns them
    postgres,         \* the PostgreSQL table and the transaction of postgres_conn
    checkpoint,       \* the checkpoint file of the table
    run               \* the locals of the reconcile_table or execute_repairs call under way

vars == <<source_data, target_data, key_field, float_tolerance, call, result,
          threads, scylla, postgres, checkpoint, run>>

----------------------------------------------------------------------------
(* The reconciliation tool at rest: no thread, no connection, no checkpoint *)

NoThreads == <<>>
NoRows == <<>>
NoPostgres == [rows |-> <<>>, statements |-> <<>>, committed |-> 0, aborted |-> FALSE]
NoCheckpoint == [exists |-> FALSE]
NoRun == [pc |-> "none"]

AtRest ==
    /\ threads = NoThreads
    /\ scylla = NoRows
    /\ postgres = NoPostgres
    /\ checkpoint = NoCheckpoint
    /\ run = NoRun

----------------------------------------------------------------------------
(* Bounds of the model *)

MaxRows == 2
MaxBatch == 2
MaxStrLen == 2
MaxItems == 1

----------------------------------------------------------------------------
(* Strings *)

RECURSIVE Concat(_)
Concat(ss) == IF ss = <<>> THEN <<>> ELSE Head(ss) \o Concat(Tail(ss))

\* sep.join(parts)
RECURSIVE Join(_, _)
Join(sep, parts) ==
    IF parts = <<>> THEN <<>>
    ELSE IF Len(parts) = 1 THEN parts[1]
    ELSE parts[1] \o sep \o Join(sep, Tail(parts))

\* s.replace(c, rep) for a one-character c
RECURSIVE Replace(_, _, _)
Replace(s, c, rep) ==
    IF s = <<>> THEN <<>>
    ELSE (IF Head(s) = c THEN rep ELSE <<Head(s)>>) \o Replace(Tail(s), c, rep)

LowerChar(c) == IF c = "A" THEN "a" ELSE IF c = "B" THEN "b" ELSE c

\* str.lower()
Lower(s) == [i \in DOMAIN s |-> LowerChar(s[i])]

Range(s) == {s[i] : i \in DOMAIN s}

\* every sequence that lists the set S once each: the orders in which Python
\* may iterate over set(S)
Orders(S) ==
    {p \in [1..Cardinality(S) -> S] : \A i, j \in 1..Cardinality(S) : p[i] = p[j] => i = j}

----------------------------------------------------------------------------
(* Python values *)

PyValue(t, s, n, e, items) == [t |-> t, s |-> s, n |-> n, e |-> e, items |-> items]

PyNone == PyValue("NoneType", <<"N", "o", "n", "e">>, 0, 0, <<>>)
PyStr(s) == PyValue("str", s, 0, 0, <<>>)
PyBool(b) == PyValue("bool", IF b THEN <<"T", "r", "u", "e">> ELSE <<"F", "a", "l", "s", "e">>,
                     IF b THEN 1 ELSE 0, 0, <<>>)

Digit(d) == CASE d = 0 -> "0" [] d = 1 -> "1" [] d = 2 -> "2" [] d = 3 -> "3" [] d = 4 -> "4"
              [] d = 5 -> "5" [] d = 6 -> "6" [] d = 7 -> "7" [] d = 8 -> "8" [] d = 9 -> "9"

\* str(n) of an int
RECURSIVE IntStr(_)
IntStr(n) ==
    IF n < 0 THEN <<"-">> \o IntStr(0 - n)
    ELSE IF n < 10 THEN <<Digit(n)>>
    ELSE IntStr(n \div 10) \o <<Digit(n % 10)>>

PyInt(n) == PyValue("int", IntStr(n), n, 0, <<>>)
\* a float of n units of 1e-5, s being its str()
PyFloat(s, n) == PyValue("float", s, n, 0, <<>>)
\* float('nan'): e = 1 marks it, no other float has it
PyNaN == PyValue("float", <<"n", "a", "n">>, 0, 1, <<>>)
IsNaN(v) == v.t = "float" /\ v.e = 1
\* Decimal n * 10^e with -5 <= e <= 0, s being its str()
PyDecimal(s, n, e) == PyValue("Decimal", s, n, e, <<>>)
\* uuid.UUID, s being its canonical lowercase hyphenated str()
PyUUID(s) == PyValue("UUID", s, 0, 0, <<>>)
\* datetime at wall-clock hour n with UTC offset e (NoTz: naive), s its isoformat()
NoTz == 99
PyDatetime(s, n, e) == PyValue("datetime", s, n, e, <<>>)
PyList(items) == PyValue("list", <<>>, 0, 0, items)
PyDict(entries) == PyValue("dict", <<>>, 0, 0, entries)
\* a value of any other class t, s being its str()
PyObject(t, s) == PyValue(t, s, 0, 0, <<>>)

----------------------------------------------------------------------------
(* Python dicts *)

Entry(k, v) == [k |-> k, v |-> v]

DictKeys(d) == [i \in DOMAIN d |-> d[i].k]
KeySet(d) == {d[i].k : i \in DOMAIN d}
DictHas(d, k) == \E i \in DOMAIN d : d[i].k = k
DictGet(d, k) == d[CHOOSE i \in DOMAIN d : d[i].k = k].v

\* d[k] = v: a new key goes last, a known key keeps its place
DictSet(d, k, v) ==
    IF DictHas(d, k)
    THEN [i \in DOMAIN d |-> IF d[i].k = k THEN Entry(k, v) ELSE d[i]]
    ELSE Append(d, Entry(k, v))

\* seq[i:i+n] with a 0-based i
Slice(seq, i, n) ==
    LET lo == i + 1
        hi == IF i + n < Len(seq) THEN i + n ELSE Len(seq)
    IN  IF lo > hi THEN <<>> ELSE [j \in 1..(hi - lo + 1) |-> seq[lo + j - 1]]

Raise(exc, detail) == [ok |-> FALSE, exc |-> exc, detail |-> detail]

----------------------------------------------------------------------------
(* comparer.py: RowComparer *)

FloatToleranceDefault == 10   \* 0.0001 in units of 1e-5

Pow10(k) == CASE k = 0 -> 1 [] k = 1 -> 10 [] k = 2 -> 100 [] k = 3 -> 1000
              [] k = 4 -> 10000 [] k = 5 -> 100000

IsNumber(v) == v.t \in {"bool", "int", "float", "Decimal"}

\* the number a numeric value stands for, in units of 1e-5
Units(v) == CASE v.t = "float" -> v.n
              [] v.t = "Decimal" -> v.n * Pow10(5 + v.e)
              [] OTHER -> v.n * Pow10(5)

Abs(x) == IF x < 0 THEN 0 - x ELSE x

\* value1 == value2 of Python
RECURSIVE PyEq(_, _)
PyEq(a, b) ==
    IF IsNaN(a) \/ IsNaN(b) THEN FALSE
    ELSE IF IsNumber(a) /\ IsNumber(b) THEN Units(a) = Units(b)
    ELSE IF a.t # b.t THEN FALSE
    ELSE IF a.t = "list"
    THEN Len(a.items) = Len(b.items) /\ \A i \in DOMAIN a.items : PyEq(a.items[i], b.items[i])
    ELSE IF a.t = "dict"
    THEN /\ KeySet(a.items) = KeySet(b.items)
         /\ \A k \in KeySet(a.items) : PyEq(DictGet(a.items, k), DictGet(b.items, k))
    ELSE IF a.t = "datetime"
    THEN /\ (a.e = NoTz) = (b.e = NoTz)
         /\ (IF a.e = NoTz THEN a.n = b.n ELSE a.n - a.e = b.n - b.e)
    ELSE a.s = b.s

\* Decimal.normalize(): the coefficient loses its trailing zeros
RECURSIVE DecimalNormalize(_)
DecimalNormalize(v) ==
    IF v.n = 0 THEN [v EXCEPT !.e = 0]
    ELSE IF v.n % 10 = 0 THEN DecimalNormalize([v EXCEPT !.n = v.n \div 10, !.e = v.e + 1])
    ELSE v

\* Mutant: a Decimal loses one trailing zero of its coefficient only
RECURSIVE _normalize_value_one_zero(_)
_normalize_value_one_zero(value) ==
    IF value.t = "NoneType" THEN PyNone
    ELSE IF value.t = "UUID" THEN PyStr(value.s)
    ELSE IF value.t = "Decimal"
    THEN (IF value.n # 0 /\ value.n % 10 = 0
          THEN [value EXCEPT !.n = value.n \div 10, !.e = value.e + 1] ELSE value)
    ELSE IF value.t = "datetime"
    THEN (IF value.e = NoTz THEN [value EXCEPT !.e = 0] ELSE value)
    ELSE IF value.t = "list"
    THEN PyList([i \in DOMAIN value.items |-> _normalize_value_one_zero(value.items[i])])
    ELSE IF value.t = "dict"
    THEN PyDict([i \in DOMAIN value.items |->
                    Entry(value.items[i].k, _normalize_value_one_zero(value.items[i].v))])
    ELSE value

RECURSIVE _normalize_value(_)
_normalize_value(value) ==
    IF value.t = "NoneType" THEN PyNone
    ELSE IF value.t = "UUID" THEN PyStr(value.s)
    ELSE IF value.t = "Decimal" THEN DecimalNormalize(value)
    ELSE IF value.t = "datetime"
    THEN (IF value.e = NoTz THEN [value EXCEPT !.e = 0] ELSE value)
    ELSE IF value.t = "list"
    THEN PyList([i \in DOMAIN value.items |-> _normalize_value(value.items[i])])
    ELSE IF value.t = "dict"
    THEN PyDict([i \in DOMAIN value.items |->
                    Entry(value.items[i].k, _normalize_value(value.items[i].v))])
    ELSE value

normalize_row(row) == [i \in DOMAIN row |-> Entry(row[i].k, _normalize_value(row[i].v))]

\* self.float_tolerance is the argument tol
RECURSIVE _values_equal(_, _, _)
_values_equal(value1, value2, tol) ==
    IF value1.t = "NoneType" /\ value2.t = "NoneType" THEN TRUE
    ELSE IF value1.t = "NoneType" \/ value2.t = "NoneType" THEN FALSE
    ELSE IF value1.t = "str" /\ value2.t = "UUID" THEN value1.s = value2.s
    ELSE IF value1.t = "UUID" /\ value2.t = "str" THEN value1.s = value2.s
    ELSE IF value1.t = "UUID" /\ value2.t = "UUID" THEN value1.s = value2.s
    ELSE IF value1.t = "Decimal" /\ value2.t = "Decimal"
    THEN PyEq(DecimalNormalize(value1), DecimalNormalize(value2))
    ELSE IF value1.t = "float" /\ value2.t = "float"
    THEN ~IsNaN(value1) /\ ~IsNaN(value2) /\ Abs(value1.n - value2.n) < tol
    ELSE IF value1.t = "datetime" /\ value2.t = "datetime"
    THEN LET v1 == IF value1.e # NoTz THEN value1 ELSE [value1 EXCEPT !.e = 0]
             v2 == IF value2.e # NoTz THEN value2 ELSE [value2 EXCEPT !.e = 0]
         IN  PyEq(v1, v2)
    ELSE IF value1.t = "list" /\ value2.t = "list"
    THEN IF Len(value1.items) # Len(value2.items) THEN FALSE
         ELSE \A i \in DOMAIN value1.items :
                  _values_equal(value1.items[i], value2.items[i], tol)
    ELSE IF value1.t = "dict" /\ value2.t = "dict"
    THEN IF KeySet(value1.items) # KeySet(value2.items) THEN FALSE
         ELSE \A k \in KeySet(value1.items) :
                  _values_equal(DictGet(value1.items, k), DictGet(value2.items, k), tol)
    ELSE PyEq(value1, value2)

\* Mutant: a field that only one of the rows holds makes the rows unequal
compare_rows_same_fields(scylla_row, postgres_row, ignore_fields, case_sensitive, tol) ==
    LET norm_scylla == normalize_row(scylla_row)
        norm_postgres == normalize_row(postgres_row)
        fold(f) == IF case_sensitive THEN f ELSE Lower(f)
        common_fields ==
            {<<sf, pf>> \in KeySet(norm_scylla) \X KeySet(norm_postgres) : fold(sf) = fold(pf)}
        ignore_set == {fold(f) : f \in Range(ignore_fields)}
        compared == {c \in common_fields : fold(c[1]) \notin ignore_set}
    IN  /\ {fold(f) : f \in KeySet(norm_scylla)} = {fold(f) : f \in KeySet(norm_postgres)}
        /\ \A c \in compared :
               _values_equal(DictGet(norm_scylla, c[1]), DictGet(norm_postgres, c[2]), tol)

\* compare_rows with self.float_tolerance = tol once the float_tolerance argument,
\* if any, is stored.  ignore_fields is a list, <<>> for None.  With
\* case_sensitive false the rows are taken to hold no two fields of one
\* lowercase form.
compare_rows(scylla_row, postgres_row, ignore_fields, case_sensitive, tol) ==
    LET norm_scylla == normalize_row(scylla_row)
        norm_postgres == normalize_row(postgres_row)
        fold(f) == IF case_sensitive THEN f ELSE Lower(f)
        common_fields ==
            {<<sf, pf>> \in KeySet(norm_scylla) \X KeySet(norm_postgres) : fold(sf) = fold(pf)}
        ignore_set == {fold(f) : f \in Range(ignore_fields)}
        compared == {c \in common_fields : fold(c[1]) \notin ignore_set}
    IN  \A c \in compared :
            _values_equal(DictGet(norm_scylla, c[1]), DictGet(norm_postgres, c[2]), tol)

\* compare_rows_detailed with self.float_tolerance = tol; the sorted lists of
\* field names are given as sets
compare_rows_detailed(scylla_row, postgres_row, ignore_fields, tol) ==
    LET norm_scylla == normalize_row(scylla_row)
        norm_postgres == normalize_row(postgres_row)
        common_fields ==
            (KeySet(norm_scylla) \cap KeySet(norm_postgres)) \ Range(ignore_fields)
        differing_fields ==
            {field \in common_fields :
                ~_values_equal(DictGet(norm_scylla, field), DictGet(norm_postgres, field), tol)}
    IN  [is_equal |-> differing_fields = {},
         matching_fields |-> common_fields \ differing_fields,
         differing_fields |-> differing_fields]

----------------------------------------------------------------------------
(* differ.py: DataDiffer *)

\* str(value) of a key value
Str(value) == value.s

\* the first key field, in the order of the key specification, that the row
\* lacks or holds None in; 0 when there is none
FirstBadField(row, fields) ==
    LET bad == {j \in DOMAIN fields :
                    ~DictHas(row, fields[j]) \/ DictGet(row, fields[j]).t = "NoneType"}
    IN  IF bad = {} THEN 0 ELSE CHOOSE j \in bad : \A m \in bad : j <= m

_extract_key(row, key_field_, case_sensitive_keys) ==
    LET fields == key_field_.fields
        j == FirstBadField(row, fields)
        str_value(f) == IF case_sensitive_keys THEN Str(DictGet(row, f))
                        ELSE Lower(Str(DictGet(row, f)))
    IN  IF j # 0
        THEN IF ~DictHas(row, fields[j])
             THEN Raise("KeyError", [field |-> fields[j], available |-> DictKeys(row)])
             ELSE Raise("ValueError", [field |-> fields[j], row |-> row])
        ELSE IF key_field_.list
        THEN [ok |-> TRUE, key |-> [i \in DOMAIN fields |-> str_value(fields[i])]]
        ELSE [ok |-> TRUE, key |-> str_value(fields[1])]

\* the loop of build_key_index from the row at 0-based position i on
RECURSIVE build_key_index_from(_, _, _, _, _)
build_key_index_from(data, key_field_, case_sensitive_keys, i, index) ==
    IF i >= Len(data) THEN [ok |-> TRUE, index |-> index]
    ELSE LET row == data[i + 1]
             key == _extract_key(row, key_field_, case_sensitive_keys)
         IN  IF key.ok
             THEN build_key_index_from(data, key_field_, case_sensitive_keys, i + 1,
                                       DictSet(index, key.key, row))
             ELSE Raise("ValueError", [index |-> i, cause |-> key])

\* Mutant: a malformed row is skipped instead of raising
RECURSIVE build_key_index_skipping_from(_, _, _, _, _)
build_key_index_skipping_from(data, key_field_, case_sensitive_keys, i, index) ==
    IF i >= Len(data) THEN [ok |-> TRUE, index |-> index]
    ELSE LET row == data[i + 1]
             key == _extract_key(row, key_field_, case_sensitive_keys)
         IN  build_key_index_skipping_from(data, key_field_, case_sensitive_keys, i + 1,
                 IF key.ok THEN DictSet(index, key.key, row) ELSE index)

build_key_index_skipping(data, key_field_, case_sensitive_keys) ==
    build_key_index_skipping_from(data, key_field_, case_sensitive_keys, 0, <<>>)

\* Mutant: the error counts the rows from 1
build_key_index_one_based(data, key_field_, case_sensitive_keys) ==
    LET r == build_key_index_from(data, key_field_, case_sensitive_keys, 0, <<>>)
    IN  IF r.ok THEN r ELSE [r EXCEPT !.detail.index = @ + 1]

\* Mutant: a key that is in the index already keeps its record
RECURSIVE build_key_index_keep_first_from(_, _, _, _, _)
build_key_index_keep_first_from(data, key_field_, case_sensitive_keys, i, index) ==
    IF i >= Len(data) THEN [ok |-> TRUE, index |-> index]
    ELSE LET row == data[i + 1]
             key == _extract_key(row, key_field_, case_sensitive_keys)
         IN  IF key.ok
             THEN build_key_index_keep_first_from(data, key_field_, case_sensitive_keys, i + 1,
                      IF DictHas(index, key.key) THEN index ELSE DictSet(index, key.key, row))
             ELSE Raise("ValueError", [index |-> i, cause |-> key])

build_key_index_keep_first(data, key_field_, case_sensitive_keys) ==
    build_key_index_keep_first_from(data, key_field_, case_sensitive_keys, 0, <<>>)

build_key_index(data, key_field_, case_sensitive_keys) ==
    build_key_index_from(data, key_field_, case_sensitive_keys, 0, <<>>)

\* find_duplicates: the keys counted more than once, in the order key_counts
\* got them; the error of _extract_key leaves the call as it is
find_duplicates(data, key_field_) ==
    LET keys == [i \in DOMAIN data |-> _extract_key(data[i], key_field_, TRUE)]
        bad == {i \in DOMAIN keys : ~keys[i].ok}
        count(i) == Cardinality({j \in DOMAIN keys : keys[j].key = keys[i].key})
        first == SelectSeq([i \in DOMAIN keys |-> i],
                           LAMBDA i : \A j \in 1..(i - 1) : keys[j].key # keys[i].key)
        counted == SelectSeq(first, LAMBDA i : count(i) > 1)
    IN  IF bad # {} THEN keys[CHOOSE i \in bad : \A j \in bad : i <= j]
        ELSE [ok |-> TRUE,
              duplicates |-> [n \in DOMAIN counted |->
                                 [key |-> keys[counted[n]].key, count |-> count(counted[n])]]]

\* The find_* operators give the set of possible outcomes of the call: one
\* for each order in which Python iterates over the key set.

\* Mutant: one missing row for every source row, not for every source key
find_missing_in_target_per_row(source, target, key_field_, case_sensitive_keys) ==
    LET source_index == build_key_index(source, key_field_, case_sensitive_keys)
        target_index == build_key_index(target, key_field_, case_sensitive_keys)
    IN  IF ~source_index.ok THEN {source_index}
        ELSE IF ~target_index.ok THEN {target_index}
        ELSE {[ok |-> TRUE,
               rows |-> SelectSeq(source, LAMBDA row :
                            ~DictHas(target_index.index,
                                     _extract_key(row, key_field_, case_sensitive_keys).key))]}

find_missing_in_target(source, target, key_field_, case_sensitive_keys) ==
    LET source_index == build_key_index(source, key_field_, case_sensitive_keys)
        target_index == build_key_index(target, key_field_, case_sensitive_keys)
    IN  IF ~source_index.ok THEN {source_index}
        ELSE IF ~target_index.ok THEN {target_index}
        ELSE LET missing_keys == KeySet(source_index.index) \ KeySet(target_index.index)
             IN  {[ok |-> TRUE,
                   rows |-> [i \in DOMAIN keys |-> DictGet(source_index.index, keys[i])]] :
                      keys \in Orders(missing_keys)}

\* Mutant: the source keys are not taken out of the target keys
find_extra_in_target_all(source, target, key_field_) ==
    LET source_index == build_key_index(source, key_field_, TRUE)
        target_index == build_key_index(target, key_field_, TRUE)
    IN  IF ~source_index.ok THEN {source_index}
        ELSE IF ~target_index.ok THEN {target_index}
        ELSE {[ok |-> TRUE,
               rows |-> [i \in DOMAIN keys |-> DictGet(target_index.index, keys[i])]] :
                  keys \in Orders(KeySet(target_index.index))}

find_extra_in_target(source, target, key_field_) ==
    LET source_index == build_key_index(source, key_field_, TRUE)
        target_index == build_key_index(target, key_field_, TRUE)
    IN  IF ~source_index.ok THEN {source_index}
        ELSE IF ~target_index.ok THEN {target_index}
        ELSE LET extra_keys == KeySet(target_index.index) \ KeySet(source_index.index)
             IN  {[ok |-> TRUE,
                   rows |-> [i \in DOMAIN keys |-> DictGet(target_index.index, keys[i])]] :
                      keys \in Orders(extra_keys)}

\* Mutant: ignore_fields is not handed to compare_rows
find_mismatches_all_fields(source, target, key_field_, ignore_fields) ==
    LET source_index == build_key_index(source, key_field_, TRUE)
        target_index == build_key_index(target, key_field_, TRUE)
    IN  IF ~source_index.ok THEN {source_index}
        ELSE IF ~target_index.ok THEN {target_index}
        ELSE LET common_keys == KeySet(source_index.index) \cap KeySet(target_index.index)
                 mismatched ==
                     {key \in common_keys :
                         ~compare_rows(DictGet(source_index.index, key),
                                       DictGet(target_index.index, key),
                                       <<>>, TRUE, float_tolerance)}
             IN  {[ok |-> TRUE,
                   rows |-> [i \in DOMAIN keys |->
                                [key |-> keys[i],
                                 scylla |-> DictGet(source_index.index, keys[i]),
                                 postgres |-> DictGet(target_index.index, keys[i])]]] :
                      keys \in Orders(mismatched)}

find_mismatches(source, target, key_field_, ignore_fields) ==
    LET source_index == build_key_index(source, key_field_, TRUE)
        target_index == build_key_index(target, key_field_, TRUE)
    IN  IF ~source_index.ok THEN {source_index}
        ELSE IF ~target_index.ok THEN {target_index}
        ELSE LET common_keys == KeySet(source_index.index) \cap KeySet(target_index.index)
                 mismatched ==
                     {key \in common_keys :
                         ~compare_rows(DictGet(source_index.index, key),
                                       DictGet(target_index.index, key),
                                       ignore_fields, TRUE, float_tolerance)}
             IN  {[ok |-> TRUE,
                   rows |-> [i \in DOMAIN keys |->
                                [key |-> keys[i],
                                 scylla |-> DictGet(source_index.index, keys[i]),
                                 postgres |-> DictGet(target_index.index, keys[i])]]] :
                      keys \in Orders(mismatched)}

\* the dict find_all_discrepancies builds from what its three calls return: the
\* first of them that raised, else every combination of their orders
AllDiscrepancies(missing, extra, mismatches) ==
    IF \E m \in missing : ~m.ok THEN missing
    ELSE IF \E e \in extra : ~e.ok THEN extra
    ELSE IF \E x \in mismatches : ~x.ok THEN mismatches
    ELSE {[ok |-> TRUE, missing |-> m.rows, extra |-> e.rows, mismatches |-> x.rows] :
             m \in missing, e \in extra, x \in mismatches}

find_all_discrepancies(source, target, key_field_, ignore_fields) ==
    AllDiscrepancies(find_missing_in_target(source, target, key_field_, TRUE),
                     find_extra_in_target(source, target, key_field_),
                     find_mismatches(source, target, key_field_, ignore_fields))

\* the batches i = 0, batch_size, 2 * batch_size, ... below n
BatchStarts(n, batch_size) == {i \in 0..(n - 1) : i % batch_size = 0}

Max(a, b) == IF a >= b THEN a ELSE b

RECURSIVE SumOver(_, _)
SumOver(S, f) ==
    IF S = {} THEN 0
    ELSE LET x == CHOOSE y \in S : TRUE IN f[x] + SumOver(S \ {x}, f)

\* Mutant: a batch of source keys is set against the target keys of the same
\* positions only, and the other way round
find_all_discrepancies_batched_positional(source, target, key_field_, batch_size, ignore_fields) ==
    LET source_index == build_key_index(source, key_field_, TRUE)
        target_index == build_key_index(target, key_field_, TRUE)
    IN  IF ~source_index.ok THEN source_index
        ELSE IF ~target_index.ok THEN target_index
        ELSE LET source_keys == DictKeys(source_index.index)
                 target_keys == DictKeys(target_index.index)
                 starts == BatchStarts(Max(Len(source_keys), Len(target_keys)), batch_size)
                 batch_source_keys(i) == Range(Slice(source_keys, i, batch_size))
                 batch_target_keys(i) == Range(Slice(target_keys, i, batch_size))
                 batch_mismatch(i) ==
                     {key \in batch_source_keys(i) \cap batch_target_keys(i) :
                         ~compare_rows(DictGet(source_index.index, key),
                                       DictGet(target_index.index, key),
                                       ignore_fields, TRUE, float_tolerance)}
             IN  [ok |-> TRUE,
                  missing_count |->
                      SumOver(starts, [i \in starts |->
                          Cardinality(batch_source_keys(i) \ batch_target_keys(i))]),
                  extra_count |->
                      SumOver(starts, [i \in starts |->
                          Cardinality(batch_target_keys(i) \ batch_source_keys(i))]),
                  mismatch_count |->
                      SumOver(starts, [i \in starts |-> Cardinality(batch_mismatch(i))])]

find_all_discrepancies_batched(source, target, key_field_, batch_size, ignore_fields) ==
    LET source_index == build_key_index(source, key_field_, TRUE)
        target_index == build_key_index(target, key_field_, TRUE)
    IN  IF ~source_index.ok THEN source_index
        ELSE IF ~target_index.ok THEN target_index
        ELSE LET source_keys == DictKeys(source_index.index)
                 target_keys == DictKeys(target_index.index)
                 starts == BatchStarts(Max(Len(source_keys), Len(target_keys)), batch_size)
                 batch_source_keys(i) == Range(Slice(source_keys, i, batch_size))
                 batch_target_keys(i) == Range(Slice(target_keys, i, batch_size))
                 batch_missing(i) == batch_source_keys(i) \ KeySet(target_index.index)
                 batch_extra(i) == batch_target_keys(i) \ KeySet(source_index.index)
                 batch_common(i) == batch_source_keys(i) \cap batch_target_keys(i)
                 batch_mismatch(i) ==
                     {key \in batch_common(i) :
                         /\ DictHas(source_index.index, key)
                         /\ DictHas(target_index.index, key)
                         /\ ~compare_rows(DictGet(source_index.index, key),
                                          DictGet(target_index.index, key),
                                          ignore_fields, TRUE, float_tolerance)}
             IN  [ok |-> TRUE,
                  missing_count |->
                      SumOver(starts, [i \in starts |-> Cardinality(batch_missing(i))]),
                  extra_count |->
                      SumOver(starts, [i \in starts |-> Cardinality(batch_extra(i))]),
                  mismatch_count |->
                      SumOver(starts, [i \in starts |-> Cardinality(batch_mismatch(i))])]

\* iter_discrepancies: the (kind, payload) tuples in the order they are
\* yielded, the source keys slice by slice, then the target keys
iter_discrepancies(source, target, key_field_, batch_size, ignore_fields) ==
    LET source_index == build_key_index(source, key_field_, TRUE)
        target_index == build_key_index(target, key_field_, TRUE)
    IN  IF ~source_index.ok THEN source_index
        ELSE IF ~target_index.ok THEN target_index
        ELSE LET source_keys == DictKeys(source_index.index)
                 target_keys == DictKeys(target_index.index)
                 of_source_key(key) ==
                     IF ~DictHas(target_index.index, key)
                     THEN << <<"missing", DictGet(source_index.index, key)>> >>
                     ELSE IF ~compare_rows(DictGet(source_index.index, key),
                                           DictGet(target_index.index, key),
                                           ignore_fields, TRUE, float_tolerance)
                     THEN << <<"mismatch", [key |-> key,
                                            scylla |-> DictGet(source_index.index, key),
                                            postgres |-> DictGet(target_index.index, key)]>> >>
                     ELSE <<>>
                 of_target_key(key) ==
                     IF ~DictHas(source_index.index, key)
                     THEN << <<"extra", DictGet(target_index.index, key)>> >>
                     ELSE <<>>
                 source_batch(b) ==
                     LET keys == Slice(source_keys, b * batch_size, batch_size)
                     IN  Concat([j \in DOMAIN keys |-> of_source_key(keys[j])])
                 target_batch(b) ==
                     LET keys == Slice(target_keys, b * batch_size, batch_size)
                     IN  Concat([j \in DOMAIN keys |-> of_target_key(keys[j])])
                 batches(n) == (n + batch_size - 1) \div batch_size
             IN  [ok |-> TRUE,
                  yielded |->
                      Concat([b \in 1..batches(Len(source_keys)) |-> source_batch(b - 1)])
                      \o Concat([b \in 1..batches(Len(target_keys)) |-> target_batch(b - 1)])]

find_all_discrepancies_streaming(source, target, key_field_, batch_size, ignore_fields) ==
    LET it == iter_discrepancies(source, target, key_field_, batch_size, ignore_fields)
        payloads(kind) ==
            LET at == SelectSeq(it.yielded, LAMBDA d : d[1] = kind)
            IN  [i \in DOMAIN at |-> at[i][2]]
    IN  IF ~it.ok THEN it
        ELSE [ok |-> TRUE,
              missing |-> payloads("missing"),
              extra |-> payloads("extra"),
              mismatches |-> payloads("mismatch"),
              stats |-> [total_source_rows |-> Len(source),
                         total_target_rows |-> Len(target),
                         batch_size |-> batch_size]]

\* Mutant: the matches are counted from the source rows, not from the common keys
SummaryCountsByRows(discrepancies, source_index, target_index, source, target) ==
    IF ~discrepancies.ok THEN discrepancies
    ELSE [ok |-> TRUE,
          total_source_rows |-> Len(source),
          total_target_rows |-> Len(target),
          missing_count |-> Len(discrepancies.missing),
          extra_count |-> Len(discrepancies.extra),
          mismatch_count |-> Len(discrepancies.mismatches),
          match_count |-> Len(source) - Len(discrepancies.missing)
                          - Len(discrepancies.mismatches)]

\* the dict get_discrepancy_summary returns for one result of
\* find_all_discrepancies and the two key indexes
SummaryCounts(discrepancies, source_index, target_index, source, target) ==
    IF ~discrepancies.ok THEN discrepancies
    ELSE [ok |-> TRUE,
          total_source_rows |-> Len(source),
          total_target_rows |-> Len(target),
          missing_count |-> Len(discrepancies.missing),
          extra_count |-> Len(discrepancies.extra),
          mismatch_count |-> Len(discrepancies.mismatches),
          match_count |->
              Cardinality(KeySet(source_index.index) \cap KeySet(target_index.index))
              - Len(discrepancies.mismatches)]

\* the counts are those of any of the orders find_all_discrepancies may return
get_discrepancy_summary(source, target, key_field_, ignore_fields) ==
    SummaryCounts(
        CHOOSE d \in find_all_discrepancies(source, target, key_field_, ignore_fields) : TRUE,
        build_key_index(source, key_field_, TRUE),
        build_key_index(target, key_field_, TRUE),
        source, target)

----------------------------------------------------------------------------
(* repairer.py: DataRepairer *)

\* datetime.now(timezone.utc).isoformat()
Now == <<"n", "o", "w">>

\* json.dumps of the text of a str
JsonString(s) ==
    <<"\"">> \o Replace(Replace(s, "\\", <<"\\", "\\">>), "\"", <<"\\", "\"">>) \o <<"\"">>

\* json.dumps(value): [ok |-> TRUE, text |-> ...], or the TypeError of a value
\* that is not JSON serializable.  The keys of a dict are str.
RECURSIVE json_dumps(_)
json_dumps(value) ==
    IF value.t = "NoneType" THEN [ok |-> TRUE, text |-> <<"n", "u", "l", "l">>]
    ELSE IF value.t = "bool"
    THEN [ok |-> TRUE, text |-> IF value.n = 1 THEN <<"t", "r", "u", "e">> ELSE <<"f", "a", "l", "s", "e">>]
    ELSE IF value.t \in {"int", "float"} THEN [ok |-> TRUE, text |-> value.s]
    ELSE IF value.t = "str" THEN [ok |-> TRUE, text |-> JsonString(value.s)]
    ELSE IF value.t = "list"
    THEN LET parts == [i \in DOMAIN value.items |-> json_dumps(value.items[i])]
         IN  IF \E i \in DOMAIN parts : ~parts[i].ok
             THEN parts[CHOOSE i \in DOMAIN parts :
                            ~parts[i].ok /\ \A j \in 1..(i - 1) : parts[j].ok]
             ELSE [ok |-> TRUE,
                   text |-> <<"[">> \o Join(<<",", " ">>, [i \in DOMAIN parts |-> parts[i].text])
                            \o <<"]">>]
    ELSE IF value.t = "dict"
    THEN LET parts == [i \in DOMAIN value.items |-> json_dumps(value.items[i].v)]
         IN  IF \E i \in DOMAIN parts : ~parts[i].ok
             THEN parts[CHOOSE i \in DOMAIN parts :
                            ~parts[i].ok /\ \A j \in 1..(i - 1) : parts[j].ok]
             ELSE [ok |-> TRUE,
                   text |-> <<"{">> \o Join(<<",", " ">>, [i \in DOMAIN parts |->
                                JsonString(value.items[i].k) \o <<":", " ">> \o parts[i].text])
                            \o <<"}">>]
    ELSE Raise("TypeError", [not_serializable |-> value.t])

\* Mutant: the JSON text goes into the literal as it is
_format_value_json_unescaped(value) ==
    IF value.t = "NoneType" THEN [ok |-> TRUE, text |-> <<"N", "U", "L", "L">>]
    ELSE IF value.t = "str"
    THEN [ok |-> TRUE, text |-> <<"'">> \o Replace(value.s, "'", <<"'", "'">>) \o <<"'">>]
    ELSE IF value.t = "bool"
    THEN [ok |-> TRUE, text |-> IF value.n = 1 THEN <<"T", "R", "U", "E">> ELSE <<"F", "A", "L", "S", "E">>]
    ELSE IF value.t \in {"int", "float"} THEN [ok |-> TRUE, text |-> value.s]
    ELSE IF value.t = "datetime" THEN [ok |-> TRUE, text |-> <<"'">> \o value.s \o <<"'">>]
    ELSE IF value.t \in {"list", "dict"}
    THEN LET json_str == json_dumps(value)
         IN  IF ~json_str.ok THEN json_str
             ELSE [ok |-> TRUE, text |-> <<"'">> \o json_str.text \o <<"'">>]
    ELSE [ok |-> TRUE, text |-> <<"'">> \o Replace(value.s, "'", <<"'", "'">>) \o <<"'">>]

_format_value(value) ==
    IF value.t = "NoneType" THEN [ok |-> TRUE, text |-> <<"N", "U", "L", "L">>]
    ELSE IF value.t = "str"
    THEN [ok |-> TRUE, text |-> <<"'">> \o Replace(value.s, "'", <<"'", "'">>) \o <<"'">>]
    ELSE IF value.t = "bool"
    THEN [ok |-> TRUE, text |-> IF value.n = 1 THEN <<"T", "R", "U", "E">> ELSE <<"F", "A", "L", "S", "E">>]
    ELSE IF value.t \in {"int", "float"} THEN [ok |-> TRUE, text |-> value.s]
    ELSE IF value.t = "datetime" THEN [ok |-> TRUE, text |-> <<"'">> \o value.s \o <<"'">>]
    ELSE IF value.t \in {"list", "dict"}
    THEN LET json_str == json_dumps(value)
         IN  IF ~json_str.ok THEN json_str
             ELSE [ok |-> TRUE,
                   text |-> <<"'">> \o Replace(json_str.text, "'", <<"'", "'">>) \o <<"'">>]
    ELSE [ok |-> TRUE, text |-> <<"'">> \o Replace(value.s, "'", <<"'", "'">>) \o <<"'">>]

_format_table_name(schema, table_name, quote_identifiers) ==
    IF quote_identifiers
    THEN <<"\"">> \o schema \o <<"\"", ".", "\"">> \o table_name \o <<"\"">>
    ELSE schema \o <<".">> \o table_name

\* the first of the results that raised, or 0
FirstRaised(results) ==
    LET bad == {i \in DOMAIN results : ~results[i].ok}
    IN  IF bad = {} THEN 0 ELSE CHOOSE i \in bad : \A j \in bad : i <= j

_build_where_clause(row, key_field_) ==
    LET fields == key_field_.fields
        lacking == {j \in DOMAIN fields : ~DictHas(row, fields[j])}
        \* row[field] raises KeyError before the value is formatted
        condition(j) ==
            IF ~DictHas(row, fields[j]) THEN Raise("KeyError", [field |-> fields[j]])
            ELSE LET value == _format_value(DictGet(row, fields[j]))
                 IN  IF ~value.ok THEN value
                     ELSE [ok |-> TRUE, text |-> fields[j] \o <<" ", "=", " ">> \o value.text]
        conditions == [j \in DOMAIN fields |-> condition(j)]
    IN  IF FirstRaised(conditions) # 0 THEN conditions[FirstRaised(conditions)]
        ELSE IF key_field_.list
        THEN [ok |-> TRUE,
              text |-> Join(<<" ", "A", "N", "D", " ">>, [j \in DOMAIN fields |-> conditions[j].text])]
        ELSE [ok |-> TRUE, text |-> conditions[1].text]

generate_insert_sql(row, table_name, schema, quote_identifiers) ==
    LET table_ref == _format_table_name(schema, table_name, quote_identifiers)
        fields == DictKeys(row)
        values == [i \in DOMAIN fields |-> _format_value(DictGet(row, fields[i]))]
        fields_str == Join(<<",", " ">>, fields)
        values_str == Join(<<",", " ">>, [i \in DOMAIN values |-> values[i].text])
    IN  IF FirstRaised(values) # 0 THEN values[FirstRaised(values)]
        ELSE [ok |-> TRUE,
              action_type |-> "INSERT",
              table |-> schema \o <<".">> \o table_name,
              sql |-> <<"I", "N", "S", "E", "R", "T", " ", "I", "N", "T", "O", " ">> \o table_ref \o <<" ", "(">> \o fields_str
                      \o <<")", " ", "V", "A", "L", "U", "E", "S", " ", "(">> \o values_str \o <<")", ";">>,
              row_data |-> row,
              timestamp |-> Now]

generate_delete_sql(row, table_name, schema, key_field_, quote_identifiers) ==
    LET table_ref == _format_table_name(schema, table_name, quote_identifiers)
        where_clause == _build_where_clause(row, key_field_)
    IN  IF ~where_clause.ok THEN where_clause
        ELSE [ok |-> TRUE,
              action_type |-> "DELETE",
              table |-> schema \o <<".">> \o table_name,
              sql |-> <<"D", "E", "L", "E", "T", "E", " ", "F", "R", "O", "M", " ">> \o table_ref \o <<" ", "W", "H", "E", "R", "E", " ">> \o where_clause.text
                      \o <<";">>,
              row_data |-> row,
              timestamp |-> Now]

\* Mutant: the fall-back sets the key fields too
generate_update_sql_fallback_all(mismatch, table_name, schema, key_field_, quote_identifiers) ==
    LET table_ref == _format_table_name(schema, table_name, quote_identifiers)
        scylla_row == mismatch.scylla
        postgres_row == mismatch.postgres
        differing ==
            SelectSeq(DictKeys(scylla_row), LAMBDA field :
                /\ DictHas(postgres_row, field)
                /\ ~PyEq(DictGet(scylla_row, field), DictGet(postgres_row, field)))
        update_fields ==
            IF differing # <<>> THEN differing
            ELSE DictKeys(scylla_row)
        set_values == [i \in DOMAIN update_fields |->
                          _format_value(DictGet(scylla_row, update_fields[i]))]
        set_clause == Join(<<",", " ">>, [i \in DOMAIN update_fields |->
                          update_fields[i] \o <<" ", "=", " ">> \o set_values[i].text])
        where_clause == _build_where_clause(scylla_row, key_field_)
    IN  IF FirstRaised(set_values) # 0 THEN set_values[FirstRaised(set_values)]
        ELSE IF ~where_clause.ok THEN where_clause
        ELSE [ok |-> TRUE,
              action_type |-> "UPDATE",
              table |-> schema \o <<".">> \o table_name,
              sql |-> <<"U", "P", "D", "A", "T", "E", " ">> \o table_ref \o <<" ", "S", "E", "T", " ">> \o set_clause \o <<" ", "W", "H", "E", "R", "E", " ">>
                      \o where_clause.text \o <<";">>,
              row_data |-> scylla_row,
              updated_fields |-> update_fields,
              timestamp |-> Now]

generate_update_sql(mismatch, table_name, schema, key_field_, quote_identifiers) ==
    LET table_ref == _format_table_name(schema, table_name, quote_identifiers)
        scylla_row == mismatch.scylla
        postgres_row == mismatch.postgres
        differing ==
            SelectSeq(DictKeys(scylla_row), LAMBDA field :
                /\ DictHas(postgres_row, field)
                /\ ~PyEq(DictGet(scylla_row, field), DictGet(postgres_row, field)))
        update_fields ==
            IF differing # <<>> THEN differing
            ELSE SelectSeq(DictKeys(scylla_row), LAMBDA f : f \notin Range(key_field_.fields))
        set_values == [i \in DOMAIN update_fields |->
                          _format_value(DictGet(scylla_row, update_fields[i]))]
        set_clause == Join(<<",", " ">>, [i \in DOMAIN update_fields |->
                          update_fields[i] \o <<" ", "=", " ">> \o set_values[i].text])
        where_clause == _build_where_clause(scylla_row, key_field_)
    IN  IF FirstRaised(set_values) # 0 THEN set_values[FirstRaised(set_values)]
        ELSE IF ~where_clause.ok THEN where_clause
        ELSE [ok |-> TRUE,
              action_type |-> "UPDATE",
              table |-> schema \o <<".">> \o table_name,
              sql |-> <<"U", "P", "D", "A", "T", "E", " ">> \o table_ref \o <<" ", "S", "E", "T", " ">> \o set_clause \o <<" ", "W", "H", "E", "R", "E", " ">>
                      \o where_clause.text \o <<";">>,
              row_data |-> scylla_row,
              updated_fields |-> update_fields,
              timestamp |-> Now]

\* row.get(field): None for a field the row lacks
DictGetOrNone(row, field) == IF DictHas(row, field) THEN DictGet(row, field) ELSE PyNone

_generate_batch_insert_sql(rows, table_name, schema, quote_identifiers) ==
    IF rows = <<>> THEN Raise("ValueError", [message |-> "empty rows"])
    ELSE
    LET table_ref == _format_table_name(schema, table_name, quote_identifiers)
        fields == DictKeys(rows[1])
        fields_str == Join(<<",", " ">>, fields)
        \* the values of all rows in the order they are formatted
        values == [n \in 1..(Len(rows) * Len(fields)) |->
                      _format_value(DictGetOrNone(rows[((n - 1) \div Len(fields)) + 1],
                                                  fields[((n - 1) % Len(fields)) + 1]))]
        values_str(r) == Join(<<",", " ">>, [i \in DOMAIN fields |->
                                          values[(r - 1) * Len(fields) + i].text])
        values_list == [r \in DOMAIN rows |-> <<"(">> \o values_str(r) \o <<")">>]
        all_values == Join(<<",", "\n", " ", " ", " ", " ">>, values_list)
    IN  IF FirstRaised(values) # 0 THEN values[FirstRaised(values)]
        ELSE [ok |-> TRUE,
              action_type |-> "INSERT",
              table |-> schema \o <<".">> \o table_name,
              sql |-> <<"I", "N", "S", "E", "R", "T", " ", "I", "N", "T", "O", " ">> \o table_ref \o <<" ", "(">> \o fields_str
                      \o <<")", " ", "V", "A", "L", "U", "E", "S", "\n", " ", " ", " ", " ">> \o all_values \o <<";">>,
              row_data |-> rows,
              batch_size |-> Len(rows),
              timestamp |-> Now]

\* a list of actions, or what the first call that raised raised
Collect(results) ==
    IF FirstRaised(results) # 0 THEN results[FirstRaised(results)]
    ELSE [ok |-> TRUE, actions |-> results]

\* Mutant: the rows behind the last full chunk are left out
generate_insert_actions_full_chunks(missing_rows, table_name, schema, batch_size) ==
    IF missing_rows = <<>> THEN [ok |-> TRUE, actions |-> <<>>]
    ELSE IF batch_size > 1
    THEN Collect([b \in 1..(Len(missing_rows) \div batch_size) |->
                    _generate_batch_insert_sql(
                        Slice(missing_rows, (b - 1) * batch_size, batch_size),
                        table_name, schema, FALSE)])
    ELSE Collect([i \in DOMAIN missing_rows |->
                     generate_insert_sql(missing_rows[i], table_name, schema, FALSE)])

\* batch_size 0 stands for None
generate_insert_actions(missing_rows, table_name, schema, batch_size) ==
    IF missing_rows = <<>> THEN [ok |-> TRUE, actions |-> <<>>]
    ELSE IF batch_size > 1
    THEN LET starts == BatchStarts(Len(missing_rows), batch_size)
         IN  Collect([b \in 1..Cardinality(starts) |->
                        _generate_batch_insert_sql(
                            Slice(missing_rows, (b - 1) * batch_size, batch_size),
                            table_name, schema, FALSE)])
    ELSE Collect([i \in DOMAIN missing_rows |->
                     generate_insert_sql(missing_rows[i], table_name, schema, FALSE)])

generate_delete_actions(extra_rows, table_name, schema, key_field_) ==
    IF extra_rows = <<>> THEN [ok |-> TRUE, actions |-> <<>>]
    ELSE Collect([i \in DOMAIN extra_rows |->
                     generate_delete_sql(extra_rows[i], table_name, schema, key_field_, FALSE)])

generate_update_actions(mismatched_rows, table_name, schema, key_field_) ==
    IF mismatched_rows = <<>> THEN [ok |-> TRUE, actions |-> <<>>]
    ELSE Collect([i \in DOMAIN mismatched_rows |->
                     generate_update_sql(mismatched_rows[i], table_name, schema, key_field_,
                                         FALSE)])

\* Mutant: the dry_run argument is not written to the actions
WithMetadataNotDryRun(action, dry_run, include_metadata) ==
    LET flagged == [f \in DOMAIN action \cup {"dry_run", "status"} |->
                       IF f = "dry_run" THEN FALSE
                       ELSE IF f = "status" THEN "pending"
                       ELSE action[f]]
    IN  IF ~include_metadata THEN flagged
        ELSE [f \in DOMAIN flagged \cup {"generated_at", "discrepancy_type"} |->
                 IF f = "generated_at" THEN Now
                 ELSE IF f = "discrepancy_type"
                 THEN CASE action.action_type = "INSERT" -> "missing"
                        [] action.action_type = "DELETE" -> "extra"
                        [] action.action_type = "UPDATE" -> "mismatch"
                 ELSE flagged[f]]

\* the fields generate_repair_actions adds to an action
WithMetadata(action, dry_run, include_metadata) ==
    LET flagged == [f \in DOMAIN action \cup {"dry_run", "status"} |->
                       IF f = "dry_run" THEN dry_run
                       ELSE IF f = "status" THEN "pending"
                       ELSE action[f]]
    IN  IF ~include_metadata THEN flagged
        ELSE [f \in DOMAIN flagged \cup {"generated_at", "discrepancy_type"} |->
                 IF f = "generated_at" THEN Now
                 ELSE IF f = "discrepancy_type"
                 THEN CASE action.action_type = "INSERT" -> "missing"
                        [] action.action_type = "DELETE" -> "extra"
                        [] action.action_type = "UPDATE" -> "mismatch"
                 ELSE flagged[f]]

\* Mutant: the actions are listed INSERT, DELETE, UPDATE
generate_repair_actions_insert_first(discrepancies, table_name, schema, key_field_, dry_run, include_metadata, prioritize) ==
    LET delete_actions ==
            generate_delete_actions(discrepancies.extra, table_name, schema, key_field_)
        insert_actions ==
            generate_insert_actions(discrepancies.missing, table_name, schema, 0)
        update_actions ==
            generate_update_actions(discrepancies.mismatches, table_name, schema, key_field_)
    IN  IF ~delete_actions.ok THEN delete_actions
        ELSE IF ~insert_actions.ok THEN insert_actions
        ELSE IF ~update_actions.ok THEN update_actions
        ELSE LET actions == insert_actions.actions \o delete_actions.actions
                            \o update_actions.actions
             IN  [ok |-> TRUE,
                  actions |-> [i \in DOMAIN actions |->
                                  WithMetadata(actions[i], dry_run, include_metadata)]]

\* discrepancies holds missing, extra and mismatches ([] for a list it lacks)
generate_repair_actions(discrepancies, table_name, schema, key_field_, dry_run, include_metadata, prioritize) ==
    LET delete_actions ==
            generate_delete_actions(discrepancies.extra, table_name, schema, key_field_)
        insert_actions ==
            generate_insert_actions(discrepancies.missing, table_name, schema, 0)
        update_actions ==
            generate_update_actions(discrepancies.mismatches, table_name, schema, key_field_)
    IN  IF ~delete_actions.ok THEN delete_actions
        ELSE IF ~insert_actions.ok THEN insert_actions
        ELSE IF ~update_actions.ok THEN update_actions
        ELSE LET actions == delete_actions.actions \o insert_actions.actions
                            \o update_actions.actions
             IN  [ok |-> TRUE,
                  actions |-> [i \in DOMAIN actions |->
                                  WithMetadata(actions[i], dry_run, include_metadata)]]

----------------------------------------------------------------------------
(* The collections the differ is run on *)

id == <<"i", "d">>
v == <<"v">>
w == <<"w">>

Row2(k1, v1, k2, v2) == <<Entry(k1, v1), Entry(k2, v2)>>
Row3(k1, v1, k2, v2, k3, v3) == <<Entry(k1, v1), Entry(k2, v2), Entry(k3, v3)>>

SourceRows ==
    { Row2(id, PyInt(1), v, PyStr(<<"a">>)),
      Row2(id, PyStr(<<"1">>), v, PyStr(<<"b">>)),
      Row3(id, PyStr(<<"2">>), v, PyStr(<<"a">>), w, PyStr(<<"x">>)),
      <<Entry(v, PyStr(<<"a">>))>>,
      Row2(id, PyNone, v, PyStr(<<"a">>)) }

TargetRows ==
    { Row2(id, PyStr(<<"1">>), v, PyStr(<<"a">>)),
      Row2(v, PyStr(<<"b">>), id, PyInt(1)),
      Row3(id, PyStr(<<"2">>), v, PyStr(<<"a">>), w, PyStr(<<"y">>)),
      Row2(id, PyStr(<<"3">>), v, PyNone),
      <<Entry(w, PyStr(<<"x">>))>> }

KeySpecs == { [list |-> FALSE, fields |-> <<id>>], [list |-> TRUE, fields |-> <<id, v>>] }

IgnoreFields == { <<>>, <<w>> }

SeqsUpTo(S, n) == UNION {[1..k -> S] : k \in 0..n}

NoCall == [op |-> "none"]
NoResult == [ok |-> TRUE]

Init ==
    /\ source_data \in SeqsUpTo(SourceRows, MaxRows)
    /\ target_data \in SeqsUpTo(TargetRows, MaxRows)
    /\ key_field \in KeySpecs
    /\ float_tolerance = FloatToleranceDefault
    /\ call = NoCall
    /\ result = NoResult
    /\ AtRest

\* what a call of the differ or of the repairer leaves as it is
inputs == <<source_data, target_data, key_field, float_tolerance,
            threads, scylla, postgres, checkpoint, run>>

BuildKeyIndex ==
    /\ call = NoCall
    /\ \E side \in {"source", "target"}, case_sensitive_keys \in BOOLEAN :
          /\ call' = [op |-> "build_key_index", side |-> side,
                      case_sensitive_keys |-> case_sensitive_keys]
          /\ result' = build_key_index(IF side = "source" THEN source_data ELSE target_data,
                                       key_field, case_sensitive_keys)
    /\ UNCHANGED inputs

FindDuplicates ==
    /\ call = NoCall
    /\ \E side \in {"source", "target"} :
          /\ call' = [op |-> "find_duplicates", side |-> side]
          /\ result' = find_duplicates(IF side = "source" THEN source_data ELSE target_data,
                                       key_field)
    /\ UNCHANGED inputs

FindMissingInTarget ==
    /\ call = NoCall
    /\ \E case_sensitive_keys \in BOOLEAN :
          /\ call' = [op |-> "find_missing_in_target",
                      case_sensitive_keys |-> case_sensitive_keys]
          /\ result' \in find_missing_in_target(source_data, target_data, key_field,
                                                case_sensitive_keys)
    /\ UNCHANGED inputs

FindExtraInTarget ==
    /\ call = NoCall
    /\ call' = [op |-> "find_extra_in_target"]
    /\ result' \in find_extra_in_target(source_data, target_data, key_field)
    /\ UNCHANGED inputs

FindMismatches ==
    /\ call = NoCall
    /\ \E ignore_fields \in IgnoreFields :
          /\ call' = [op |-> "find_mismatches", ignore_fields |-> ignore_fields]
          /\ result' \in find_mismatches(source_data, target_data, key_field, ignore_fields)
    /\ UNCHANGED inputs

FindAllDiscrepancies ==
    /\ call = NoCall
    /\ \E ignore_fields \in IgnoreFields :
          /\ call' = [op |-> "find_all_discrepancies", ignore_fields |-> ignore_fields]
          /\ result' \in find_all_discrepancies(source_data, target_data, key_field,
                                                ignore_fields)
    /\ UNCHANGED inputs

FindAllDiscrepanciesBatched ==
    /\ call = NoCall
    /\ \E ignore_fields \in IgnoreFields, batch_size \in 1..MaxBatch :
          /\ call' = [op |-> "find_all_discrepancies_batched",
                      ignore_fields |-> ignore_fields, batch_size |-> batch_size]
          /\ result' = find_all_discrepancies_batched(source_data, target_data, key_field,
                                                      batch_size, ignore_fields)
    /\ UNCHANGED inputs

FindAllDiscrepanciesStreaming ==
    /\ call = NoCall
    /\ \E ignore_fields \in IgnoreFields, batch_size \in 1..MaxBatch :
          /\ call' = [op |-> "find_all_discrepancies_streaming",
                      ignore_fields |-> ignore_fields, batch_size |-> batch_size]
          /\ result' = find_all_discrepancies_streaming(source_data, target_data, key_field,
                                                        batch_size, ignore_fields)
    /\ UNCHANGED inputs

IterDiscrepancies ==
    /\ call = NoCall
    /\ \E ignore_fields \in IgnoreFields, batch_size \in 1..MaxBatch :
          /\ call' = [op |-> "iter_discrepancies",
                      ignore_fields |-> ignore_fields, batch_size |-> batch_size]
          /\ result' = iter_discrepancies(source_data, target_data, key_field,
                                          batch_size, ignore_fields)
    /\ UNCHANGED inputs

GetDiscrepancySummary ==
    /\ call = NoCall
    /\ \E ignore_fields \in IgnoreFields :
          /\ call' = [op |-> "get_discrepancy_summary", ignore_fields |-> ignore_fields]
          /\ result' = get_discrepancy_summary(source_data, target_data, key_field,
                                               ignore_fields)
    /\ UNCHANGED inputs

Next ==
    \/ BuildKeyIndex
    \/ FindDuplicates
    \/ FindMissingInTarget
    \/ FindExtraInTarget
    \/ FindMismatches
    \/ FindAllDiscrepancies
    \/ FindAllDiscrepanciesBatched
    \/ FindAllDiscrepanciesStreaming
    \/ IterDiscrepancies
    \/ GetDiscrepancySummary

Spec == Init /\ [][Next]_vars

----------------------------------------------------------------------------
(* Properties of the differ *)

\* the row has every key field, none of them None
WellFormed(row) ==
    \A j \in DOMAIN key_field.fields :
        \E i \in DOMAIN row : row[i].k = key_field.fields[j] /\ row[i].v.t # "NoneType"

AllWellFormed(data) == \A i \in DOMAIN data : WellFormed(data[i])

KeyOf(row) == _extract_key(row, key_field, TRUE).key

KeysOf(data) == {KeyOf(data[i]) : i \in DOMAIN data}

\* the record an index over data holds for key k: the last one
Indexed(data, k) ==
    LET at == {i \in DOMAIN data : KeyOf(data[i]) = k}
    IN  data[CHOOSE i \in at : \A j \in at : j <= i]

MissingKeys == KeysOf(source_data) \ KeysOf(target_data)
ExtraKeys == KeysOf(target_data) \ KeysOf(source_data)
MismatchedKeys(ignore_fields) ==
    {k \in KeysOf(source_data) \cap KeysOf(target_data) :
        ~compare_rows(Indexed(source_data, k), Indexed(target_data, k),
                      ignore_fields, TRUE, float_tolerance)}

\* C1: on collections with well-formed keys find_all_discrepancies returns in
\* missing exactly the source-index records whose key the target index lacks,
\* in extra exactly the target-index records whose key the source index lacks,
\* and in mismatches one entry (key, source record, target record) for each
\* common key whose records compare_rows reports unequal.
C1_SetAlgebra ==
    (/\ call.op = "find_all_discrepancies"
     /\ AllWellFormed(source_data)
     /\ AllWellFormed(target_data))
    => /\ result.ok
       /\ Len(result.missing) = Cardinality(MissingKeys)
       /\ Range(result.missing) = {Indexed(source_data, k) : k \in MissingKeys}
       /\ Len(result.extra) = Cardinality(ExtraKeys)
       /\ Range(result.extra) = {Indexed(target_data, k) : k \in ExtraKeys}
       /\ Len(result.mismatches) = Cardinality(MismatchedKeys(call.ignore_fields))
       /\ Range(result.mismatches) =
              {[key |-> k, scylla |-> Indexed(source_data, k),
                postgres |-> Indexed(target_data, k)] :
                  k \in MismatchedKeys(call.ignore_fields)}

C1_Witness ==
    /\ call.op = "find_all_discrepancies"
    /\ call.ignore_fields # <<>>
    /\ AllWellFormed(source_data)
    /\ AllWellFormed(target_data)
    /\ result.ok
    /\ result.missing # <<>>
    /\ result.extra # <<>>
    /\ result.mismatches # <<>>

\* the keys of the records of a result, missing, then extra, then mismatches
ResultKeys(r) ==
    [i \in DOMAIN r.missing |-> KeyOf(r.missing[i])]
    \o [i \in DOMAIN r.extra |-> KeyOf(r.extra[i])]
    \o [i \in DOMAIN r.mismatches |-> r.mismatches[i].key]

HasDuplicateKey(data) ==
    \E i, j \in DOMAIN data : i < j /\ KeyOf(data[i]) = KeyOf(data[j])

\* C2: in a result of find_all_discrepancies no key occurs twice, neither in
\* two of missing, extra and mismatches nor twice in one of them, also when
\* the source or the target holds records with duplicate keys.
C2_DisjointByKey ==
    (call.op = "find_all_discrepancies" /\ result.ok)
    => LET keys == ResultKeys(result)
       IN  \A i, j \in DOMAIN keys : keys[i] = keys[j] => i = j

C2_Witness ==
    /\ call.op = "find_all_discrepancies"
    /\ result.ok
    /\ HasDuplicateKey(source_data)
    /\ HasDuplicateKey(target_data)
    /\ Len(ResultKeys(result)) >= 2

DifferCalls ==
    {"find_all_discrepancies", "find_missing_in_target", "find_extra_in_target",
     "find_mismatches", "find_all_discrepancies_batched"}

\* C7: a record without a key field, or with None in one, anywhere in the
\* source or the target makes every differencing call raise: nothing of a
\* discrepancy set is returned.
C7_MalformedKeyAborts ==
    (/\ call.op \in DifferCalls
     /\ ~(AllWellFormed(source_data) /\ AllWellFormed(target_data)))
    => /\ ~result.ok
       /\ result.exc = "ValueError"
       /\ DOMAIN result = {"ok", "exc", "detail"}

C7_Witness ==
    /\ call.op = "find_all_discrepancies_batched"
    /\ AllWellFormed(source_data)
    /\ Len(source_data) = MaxRows
    /\ Len(target_data) = MaxRows
    /\ \A i \in 1..(MaxRows - 1) : WellFormed(target_data[i])
    /\ ~WellFormed(target_data[MaxRows])
    /\ ~result.ok

Indexing == IF call.side = "source" THEN source_data ELSE target_data

\* C8: build_key_index over a collection with a malformed key raises an error
\* that names the position (from 0) of the first malformed record, and returns
\* no index.
C8_FailFastIndexing ==
    (call.op = "build_key_index" /\ ~AllWellFormed(Indexing))
    => /\ ~result.ok
       /\ result.exc = "ValueError"
       /\ result.detail.index + 1 \in DOMAIN Indexing
       /\ ~WellFormed(Indexing[result.detail.index + 1])
       /\ \A i \in 1..result.detail.index : WellFormed(Indexing[i])
       /\ "index" \notin DOMAIN result

C8_Witness ==
    /\ call.op = "build_key_index"
    /\ Len(Indexing) >= 2
    /\ WellFormed(Indexing[1])
    /\ ~WellFormed(Indexing[2])
    /\ ~result.ok
    /\ result.detail.index = 1

\* the (kind, payload) tuples of a streamed result
Streamed ==
    IF call.op = "iter_discrepancies" THEN result.yielded
    ELSE [i \in DOMAIN result.missing |-> <<"missing", result.missing[i]>>]
         \o [i \in DOMAIN result.extra |-> <<"extra", result.extra[i]>>]
         \o [i \in DOMAIN result.mismatches |-> <<"mismatch", result.mismatches[i]>>]

StreamedKeys(kind) ==
    {IF kind = "mismatch" THEN Streamed[i][2].key ELSE KeyOf(Streamed[i][2]) :
        i \in {j \in DOMAIN Streamed : Streamed[j][1] = kind}}

MovedKey ==
    \E i \in DOMAIN source_data, j \in DOMAIN target_data :
        i # j /\ KeyOf(source_data[i]) = KeyOf(target_data[j])

\* C10: on collections with well-formed keys find_all_discrepancies_batched
\* counts as many missing and as many extra records as find_all_discrepancies
\* returns, in whatever order the records come.
C10_BatchedCounts ==
    (/\ call.op = "find_all_discrepancies_batched"
     /\ AllWellFormed(source_data)
     /\ AllWellFormed(target_data))
    => /\ result.ok
       /\ \A whole \in find_all_discrepancies(source_data, target_data, key_field,
                                              call.ignore_fields) :
              /\ whole.ok
              /\ result.missing_count = Len(whole.missing)
              /\ result.extra_count = Len(whole.extra)

C10_Witness ==
    /\ call.op = "find_all_discrepancies_batched"
    /\ call.batch_size = 1
    /\ AllWellFormed(source_data)
    /\ AllWellFormed(target_data)
    /\ MovedKey
    /\ result.ok
    /\ result.missing_count > 0
    /\ result.extra_count > 0

\* C11: on collections with well-formed keys find_all_discrepancies_batched
\* counts as many mismatches as find_all_discrepancies returns, also when a
\* common key stands in different batch slices of the two key lists.
C11_BatchedMismatchCount ==
    (/\ call.op = "find_all_discrepancies_batched"
     /\ AllWellFormed(source_data)
     /\ AllWellFormed(target_data))
    => /\ result.ok
       /\ \A whole \in find_all_discrepancies(source_data, target_data, key_field,
                                              call.ignore_fields) :
              /\ whole.ok
              /\ result.mismatch_count = Len(whole.mismatches)

\* C17: get_discrepancy_summary reports as match_count the number of common
\* keys less the number of mismatches, which is not negative and is the number
\* of common keys whose records compare equal; its missing, extra and mismatch
\* counts are the sizes of the lists find_all_discrepancies returns.
C17_SummaryCounts ==
    (/\ call.op = "get_discrepancy_summary"
     /\ AllWellFormed(source_data)
     /\ AllWellFormed(target_data))
    => LET common == KeysOf(source_data) \cap KeysOf(target_data)
       IN  /\ result.ok
           /\ result.match_count = Cardinality(common) - result.mismatch_count
           /\ result.match_count >= 0
           /\ result.match_count =
                  Cardinality(common \ MismatchedKeys(call.ignore_fields))
           /\ \A whole \in find_all_discrepancies(source_data, target_data, key_field,
                                                  call.ignore_fields) :
                  /\ result.missing_count = Len(whole.missing)
                  /\ result.extra_count = Len(whole.extra)
                  /\ result.mismatch_count = Len(whole.mismatches)

C17_Witness ==
    /\ call.op = "get_discrepancy_summary"
    /\ result.ok
    /\ result.match_count > 0
    /\ result.mismatch_count > 0
    /\ result.total_source_rows = 2

----------------------------------------------------------------------------
(* The values, rows and discrepancies the repairer is run on *)

Chars == {"a", "'", "\""}

Texts == SeqsUpTo(Chars, MaxStrLen)

Unserializable == PyDatetime(<<"2", "0", "2", "4", "-", "0", "1", "-", "0", "1", "T", "0", "0", ":", "0", "0", ":", "0", "0">>, 0, NoTz)

JsonItems ==
    {PyStr(s) : s \in SeqsUpTo(Chars, 1)}
    \cup {PyNone, PyBool(TRUE), PyInt(1), PyList(<<PyStr(<<"'">>)>>), Unserializable}

JsonKeys == {<<"k">>, <<"'">>}

Lists == {PyList(items) : items \in SeqsUpTo(JsonItems, MaxItems)}

Dicts ==
    UNION {{PyDict([i \in 1..n |-> Entry(ks[i], vs[i])]) :
               ks \in {q \in [1..n -> JsonKeys] : \A i, j \in 1..n : q[i] = q[j] => i = j},
               vs \in [1..n -> JsonItems]} : n \in 0..MaxItems}

Scalars ==
    {PyNone, PyBool(TRUE), PyBool(FALSE), PyInt(12), PyFloat(<<"1", ".", "5">>, 150000),
     PyDatetime(<<"2", "0", "2", "4", "-", "0", "1", "-", "0", "1", "T", "0", "0", ":", "0", "0", ":", "0", "0", "+", "0", "0", ":", "0", "0">>, 0, 0),
     PyUUID(<<"1", "2", "3", "e", "4", "5", "6", "7", "-", "e", "8", "9", "b", "-", "1", "2", "d", "3", "-", "a", "4", "5", "6", "-", "4", "2", "6", "6", "1", "4", "1", "7", "4", "0", "0", "0">>),
     PyDecimal(<<"1", ".", "5", "0">>, 150, 0 - 2),
     PyObject("bytes", <<"b", "'", "a", "'">>),
     PyObject("timedelta", <<"1", ":", "3", "0", ":", "0", "0">>),
     PyObject("CustomObject", <<"<", "C", "u", "s", "t", "o", "m", "O", "b", "j", "e", "c", "t", " ", "o", "b", "j", "e", "c", "t", ">">>),
     PyObject("set", <<"{", "'", "a", "'", "}">>)}

FormatValues == Scalars \cup {PyStr(s) : s \in Texts} \cup Lists \cup Dicts

order == <<"o", "r", "d", "e", "r">>
quoted == <<"a", "\"">>

Schemas == {<<"c", "d", "c", "_", "d", "a", "t", "a">>, <<"s", "\"">>}
Tables == {<<"u", "s", "e", "r", "s">>}

RowValues == {PyInt(1), PyStr(<<"O", "'", "C">>), PyNone, PyList(<<PyStr(<<"'">>)>>),
              PyList(<<Unserializable>>), PyObject("CustomObject", <<"<", "C", "u", "s", "t", "o", "m", "O", "b", "j", "e", "c", "t", " ", "o", "b", "j", "e", "c", "t", ">">>)}

RepairRows ==
    {Row2(id, key, name, value) :
        key \in {PyInt(1), PyStr(<<"2">>)}, name \in {v, order, quoted}, value \in RowValues}
    \cup {<<Entry(name, value)>> : name \in {v, quoted}, value \in RowValues}

Mismatches == {[scylla |-> s, postgres |-> p] : s \in RepairRows, p \in RepairRows}

BatchRows ==
    {Row2(id, PyInt(1), v, PyStr(<<"a", "'">>)),
     Row2(v, PyStr(<<"b">>), id, PyInt(2)),
     Row2(id, PyInt(3), quoted, PyList(<<Unserializable>>)),
     <<Entry(id, PyInt(4))>>}

ExtraPool == {Row2(id, PyInt(1), v, PyStr(<<"a">>)), <<Entry(id, PyInt(2))>>}
MissingPool == {Row2(id, PyInt(3), v, PyStr(<<"a", "'">>)),
                Row2(id, PyInt(4), order, PyList(<<Unserializable>>))}
MismatchPool ==
    {[scylla |-> Row2(id, PyInt(5), v, PyStr(<<"a">>)),
      postgres |-> Row2(id, PyInt(5), v, PyStr(<<"b">>))],
     [scylla |-> Row2(id, PyInt(6), v, PyStr(<<"a">>)),
      postgres |-> Row2(id, PyStr(<<"6">>), v, PyStr(<<"a">>))]}

InitRepair ==
    /\ source_data = <<>>
    /\ target_data = <<>>
    /\ key_field \in KeySpecs
    /\ float_tolerance = FloatToleranceDefault
    /\ call = NoCall
    /\ result = NoResult
    /\ AtRest

FormatValue ==
    /\ call = NoCall
    /\ \E value \in FormatValues :
          /\ call' = [op |-> "_format_value", value |-> value]
          /\ result' = _format_value(value)
    /\ UNCHANGED inputs

GenerateInsertSql ==
    /\ call = NoCall
    /\ \E row \in RepairRows, table_name \in Tables, schema \in Schemas,
          quote_identifiers \in BOOLEAN :
          /\ call' = [op |-> "generate_insert_sql", row |-> row, table_name |-> table_name,
                      schema |-> schema, quote_identifiers |-> quote_identifiers]
          /\ result' = generate_insert_sql(row, table_name, schema, quote_identifiers)
    /\ UNCHANGED inputs

GenerateDeleteSql ==
    /\ call = NoCall
    /\ \E row \in RepairRows, table_name \in Tables, schema \in Schemas,
          quote_identifiers \in BOOLEAN :
          /\ call' = [op |-> "generate_delete_sql", row |-> row, table_name |-> table_name,
                      schema |-> schema, quote_identifiers |-> quote_identifiers]
          /\ result' = generate_delete_sql(row, table_name, schema, key_field,
                                           quote_identifiers)
    /\ UNCHANGED inputs

GenerateUpdateSql ==
    /\ call = NoCall
    /\ \E mismatch \in Mismatches, table_name \in Tables, schema \in Schemas,
          quote_identifiers \in BOOLEAN :
          /\ call' = [op |-> "generate_update_sql", mismatch |-> mismatch,
                      table_name |-> table_name, schema |-> schema,
                      quote_identifiers |-> quote_identifiers]
          /\ result' = generate_update_sql(mismatch, table_name, schema, key_field,
                                           quote_identifiers)
    /\ UNCHANGED inputs

GenerateBatchInsertSql ==
    /\ call = NoCall
    /\ \E rows \in SeqsUpTo(BatchRows, MaxRows), table_name \in Tables, schema \in Schemas,
          quote_identifiers \in BOOLEAN :
          /\ call' = [op |-> "_generate_batch_insert_sql", rows |-> rows,
                      table_name |-> table_name, schema |-> schema,
                      quote_identifiers |-> quote_identifiers]
          /\ result' = _generate_batch_insert_sql(rows, table_name, schema,
                                                  quote_identifiers)
    /\ UNCHANGED inputs

GenerateInsertActions ==
    /\ call = NoCall
    /\ \E missing_rows \in SeqsUpTo(BatchRows, MaxRows + 1), table_name \in Tables,
          schema \in Schemas, batch_size \in 0..MaxBatch :
          /\ call' = [op |-> "generate_insert_actions", missing_rows |-> missing_rows,
                      table_name |-> table_name, schema |-> schema,
                      batch_size |-> batch_size]
          /\ result' = generate_insert_actions(missing_rows, table_name, schema, batch_size)
    /\ UNCHANGED inputs

GenerateRepairActions ==
    /\ call = NoCall
    /\ \E missing \in SeqsUpTo(MissingPool, MaxRows), extra \in SeqsUpTo(ExtraPool, MaxRows),
          mismatches \in SeqsUpTo(MismatchPool, MaxRows), table_name \in Tables,
          schema \in Schemas, dry_run \in BOOLEAN, include_metadata \in BOOLEAN,
          prioritize \in BOOLEAN :
          LET discrepancies ==
                  [missing |-> missing, extra |-> extra, mismatches |-> mismatches]
          IN  /\ call' = [op |-> "generate_repair_actions", discrepancies |-> discrepancies,
                          table_name |-> table_name, schema |-> schema,
                          dry_run |-> dry_run, include_metadata |-> include_metadata,
                          prioritize |-> prioritize]
              /\ result' = generate_repair_actions(discrepancies, table_name, schema,
                                                   key_field, dry_run, include_metadata,
                                                   prioritize)
    /\ UNCHANGED inputs

NextRepair ==
    \/ FormatValue
    \/ GenerateInsertSql
    \/ GenerateDeleteSql
    \/ GenerateUpdateSql
    \/ GenerateBatchInsertSql
    \/ GenerateInsertActions
    \/ GenerateRepairActions

SpecRepair == InitRepair /\ [][NextRepair]_vars

----------------------------------------------------------------------------
(* Properties of the repairer *)

ActionTypes == [i \in DOMAIN result.actions |-> result.actions[i].action_type]

\* C3: in the list generate_repair_actions returns every DELETE action comes
\* before every INSERT action and every INSERT action before every UPDATE
\* action, whatever prioritize is.
C3_RepairOrdering ==
    (call.op = "generate_repair_actions" /\ result.ok)
    => \A i, j \in DOMAIN ActionTypes :
           /\ (ActionTypes[i] = "DELETE" /\ ActionTypes[j] \in {"INSERT", "UPDATE"}) => i < j
           /\ (ActionTypes[i] = "INSERT" /\ ActionTypes[j] = "UPDATE") => i < j

C3_Witness ==
    /\ call.op = "generate_repair_actions"
    /\ ~call.prioritize
    /\ result.ok
    /\ \A kind \in {"DELETE", "INSERT", "UPDATE"} :
           \E i \in DOMAIN ActionTypes : ActionTypes[i] = kind

\* sub occurs in s as a run of consecutive characters
Contains(s, sub) ==
    \E i \in 0..(Len(s) - Len(sub)) : SubSeq(s, i + 1, i + Len(sub)) = sub

\* the identifier in double quotes, its own double quotes doubled
QuoteIdentifier(name) == <<"\"">> \o Replace(name, "\"", <<"\"", "\"">>) \o <<"\"">>

\* the column names a generated statement has to name
StatementColumns ==
    CASE call.op = "generate_insert_sql" -> Range(DictKeys(call.row))
      [] call.op = "generate_delete_sql" -> Range(key_field.fields)
      [] call.op = "generate_update_sql" ->
             Range(result.updated_fields) \cup Range(key_field.fields)
      [] call.op = "_generate_batch_insert_sql" -> Range(DictKeys(call.rows[1]))

SqlCalls == {"generate_insert_sql", "generate_delete_sql", "generate_update_sql",
             "_generate_batch_insert_sql"}

\* C4: a statement generated with default arguments holds the schema name, the
\* table name and every column name in double quotes, embedded double quotes
\* doubled.
C4_IdentifiersQuoted ==
    (call.op \in SqlCalls /\ ~call.quote_identifiers /\ result.ok)
    => /\ Contains(result.sql, QuoteIdentifier(call.schema) \o <<".">>
                               \o QuoteIdentifier(call.table_name))
       /\ \A name \in StatementColumns : Contains(result.sql, QuoteIdentifier(name))

\* the text a single-quoted SQL literal body stands for: [ok, text], ok false
\* when the body holds a single quote that is not doubled
RECURSIVE Unescape(_)
Unescape(body) ==
    IF body = <<>> THEN [ok |-> TRUE, text |-> <<>>]
    ELSE IF Head(body) # "'"
    THEN LET rest == Unescape(Tail(body))
         IN  [ok |-> rest.ok, text |-> <<Head(body)>> \o rest.text]
    ELSE IF Len(body) >= 2 /\ body[2] = "'"
    THEN LET rest == Unescape(Tail(Tail(body)))
         IN  [ok |-> rest.ok, text |-> <<"'">> \o rest.text]
    ELSE [ok |-> FALSE, text |-> <<>>]

\* the content a text, list or dict value is written with
LiteralContent(value) == IF value.t = "str" THEN value.s ELSE json_dumps(value).text

\* C5: the literal _format_value gives for a text value, or for a list or dict
\* value serialized as JSON, starts and ends with a single quote and holds the
\* content between them with every single quote doubled.
C5_StringLiteralEscaped ==
    (/\ call.op = "_format_value"
     /\ call.value.t \in {"str", "list", "dict"}
     /\ result.ok)
    => /\ Len(result.text) >= 2
       /\ result.text[1] = "'"
       /\ result.text[Len(result.text)] = "'"
       /\ LET body == Unescape(SubSeq(result.text, 2, Len(result.text) - 1))
          IN  body.ok /\ body.text = LiteralContent(call.value)

C5_Witness ==
    /\ call.op = "_format_value"
    /\ call.value.t \in {"list", "dict"}
    /\ result.ok
    /\ "'" \in Range(LiteralContent(call.value))
    /\ "\"" \in Range(LiteralContent(call.value))

SupportedTypes == {"NoneType", "str", "bool", "int", "float", "Decimal", "datetime",
                   "bytes", "timedelta", "UUID", "list", "dict"}

\* C6: _format_value raises a TypeError for a value whose type is not
\* supported; it returns no literal for it.
C6_UnsupportedTypeRaises ==
    (call.op = "_format_value" /\ call.value.t \notin SupportedTypes)
    => ~result.ok /\ result.exc = "TypeError"

----------------------------------------------------------------------------
(* The rows and values the comparer is run on.  An identifier (UUID) of the  *)
(* model has two hexadecimal digits, written d-d in its canonical form.      *)

fa == <<"a">>
fA == <<"A">>
fb == <<"b">>

Floats == {PyFloat(<<"1", ".", "0">>, 100000), PyFloat(<<"1", ".", "0", "0", "0", "0", "5">>, 100005), PyFloat(<<"1", ".", "0", "0", "5">>, 100500)}

Identifiers == {PyUUID(<<"a", "-", "b">>), PyStr(<<"a", "-", "b">>), PyStr(<<"A", "-", "B">>), PyStr(<<"a", "b">>), PyStr(<<"a", "-", "c">>)}

Decimals == {PyDecimal(<<"1", ".", "5", "0", "0">>, 1500, 0 - 3), PyDecimal(<<"1", ".", "5">>, 15, 0 - 1), PyDecimal(<<"0", ".", "0">>, 0, 0 - 1)}

Datetimes == {PyDatetime(<<"1", "0", ":", "0", "0">>, 10, NoTz), PyDatetime(<<"1", "0", ":", "0", "0", "+", "0", "0", ":", "0", "0">>, 10, 0),
              PyDatetime(<<"1", "2", ":", "0", "0", "+", "0", "2", ":", "0", "0">>, 12, 2)}

CompareScalars == {PyNone, PyInt(1), PyBool(TRUE)} \cup Floats \cup Identifiers \cup Decimals \cup Datetimes

Nested(S) == {PyList(<<x>>) : x \in S} \cup {PyDict(<<Entry(<<"k">>, x)>>) : x \in S}

\* the values of depth up to two with one element on each level
NormalizeValues == CompareScalars \cup Nested(CompareScalars) \cup Nested(Nested(Decimals \cup {PyUUID(<<"a", "-", "b">>)}))

CompareValues ==
    CompareScalars \cup Nested({PyFloat(<<"1", ".", "0">>, 100000), PyFloat(<<"1", ".", "0", "0", "5">>, 100500), PyUUID(<<"a", "-", "b">>), PyStr(<<"a", "-", "b">>)})

ScyllaRows ==
    {<<>>}
    \cup {<<Entry(fa, x)>> : x \in CompareValues}
    \cup {Row2(fa, x, fb, PyInt(1)) : x \in Floats \cup {PyUUID(<<"a", "-", "b">>)}}

PostgresRows ==
    {<<>>}
    \cup {<<Entry(fa, x)>> : x \in CompareValues}
    \cup {<<Entry(fA, x)>> : x \in Floats}
    \cup {Row2(fb, PyInt(2), fa, x) : x \in Floats \cup {PyStr(<<"A", "-", "B">>)}}

CompareIgnore == {<<>>, <<fa>>, <<fb, fA>>}

\* a float_tolerance argument: None, 0.00001 or 0.01
ToleranceArgs == {PyNone, PyFloat(<<"1", "e", "-", "0", "5">>, 1), PyFloat(<<"0", ".", "0", "1">>, 1000)}

\* one RowComparer, fresh, and the two rows it is asked to compare
InitComparer ==
    /\ source_data \in {<<row>> : row \in ScyllaRows}
    /\ target_data \in {<<row>> : row \in PostgresRows}
    /\ key_field = [list |-> FALSE, fields |-> <<fa>>]
    /\ float_tolerance = FloatToleranceDefault
    /\ call = NoCall
    /\ result = NoResult
    /\ AtRest

rows == <<source_data, target_data, key_field, threads, scylla, postgres, checkpoint, run>>

\* compare_rows, as often as wanted on the one comparer: the float_tolerance
\* argument, when given, is stored in self.float_tolerance before the rows
\* are compared
CompareRows ==
    /\ \E ignore_fields \in CompareIgnore, case_sensitive \in BOOLEAN, tol \in ToleranceArgs :
          LET stored == IF tol.t # "NoneType" THEN tol.n ELSE float_tolerance
          IN  /\ float_tolerance' = stored
              /\ call' = [op |-> "compare_rows", ignore_fields |-> ignore_fields,
                          case_sensitive |-> case_sensitive, float_tolerance |-> tol]
              /\ result' = [ok |-> TRUE,
                            equal |-> compare_rows(source_data[1], target_data[1],
                                                   ignore_fields, case_sensitive, stored)]
    /\ UNCHANGED rows

NormalizeValue ==
    /\ call = NoCall
    /\ \E value \in NormalizeValues :
          /\ call' = [op |-> "_normalize_value", value |-> value]
          /\ result' = [ok |-> TRUE, value |-> _normalize_value(value)]
    /\ UNCHANGED <<rows, float_tolerance>>

NormalizeRow ==
    /\ call = NoCall
    /\ \E side \in {"source", "target"} :
          /\ call' = [op |-> "normalize_row", side |-> side]
          /\ result' = [ok |-> TRUE,
                        row |-> normalize_row(IF side = "source" THEN source_data[1]
                                              ELSE target_data[1])]
    /\ UNCHANGED <<rows, float_tolerance>>

NextComparer ==
    \/ CompareRows
    \/ NormalizeValue
    \/ NormalizeRow

SpecComparer == InitComparer /\ [][NextComparer]_vars

----------------------------------------------------------------------------
(* Properties of the comparer *)

scylla_row == source_data[1]
postgres_row == target_data[1]

\* the fields both rows hold that ignore_fields does not name
ComparedFields(ignore_fields) ==
    (KeySet(scylla_row) \cap KeySet(postgres_row)) \ Range(ignore_fields)

\* C12: a compare_rows call that passes no float_tolerance compares floats
\* with the tolerance 0.0001 and so returns what its arguments alone decide,
\* whatever calls the comparer has served before.
C12_CompareRowsStateless ==
    (call.op = "compare_rows" /\ call.float_tolerance = PyNone)
    => result.equal = compare_rows(scylla_row, postgres_row, call.ignore_fields,
                                   call.case_sensitive, FloatToleranceDefault)

\* C14: compare_rows(a, b, ignore_fields) is true exactly when every field
\* that both rows hold and ignore_fields does not name has equal normalized
\* values; a field of one row only never makes the rows unequal, and rows
\* with no field left to compare are equal.
C14_CommonFieldsOnly ==
    (call.op = "compare_rows" /\ call.case_sensitive)
    => /\ result.equal =
              \A f \in ComparedFields(call.ignore_fields) :
                  _values_equal(_normalize_value(DictGet(scylla_row, f)),
                                _normalize_value(DictGet(postgres_row, f)), float_tolerance)
       /\ ComparedFields(call.ignore_fields) = {} => result.equal

C14_Witness ==
    /\ call.op = "compare_rows"
    /\ call.case_sensitive
    /\ fb \in KeySet(scylla_row) \cap KeySet(postgres_row)
    /\ ~PyEq(DictGet(scylla_row, fb), DictGet(postgres_row, fb))
    /\ fb \in Range(call.ignore_fields)
    /\ fA \notin KeySet(scylla_row)
    /\ ComparedFields(call.ignore_fields) # {}
    /\ result.equal

\* C15: normalizing a normalized value changes nothing, and neither does
\* normalizing a normalized row.
C15_NormalizeIdempotent ==
    /\ call.op = "_normalize_value" => _normalize_value(result.value) = result.value
    /\ call.op = "normalize_row" => normalize_row(result.row) = result.row

C15_Witness ==
    /\ call.op = "_normalize_value"
    /\ call.value.t = "list"
    /\ call.value.items[1].t = "dict"
    /\ call.value.items[1].items[1].v.t = "Decimal"
    /\ result.value # call.value

\* the canonical form of an identifier text: lowercase, the digits hyphenated
CanonicalUuid(s) ==
    LET digits == Lower(SelectSeq(s, LAMBDA c : c # "-"))
    IN  <<digits[1], "-", digits[2]>>

\* the fields both rows hold, a text on one side, an identifier on the other
MixedIdentifierFields ==
    {f \in KeySet(scylla_row) \cap KeySet(postgres_row) :
        {DictGet(scylla_row, f).t, DictGet(postgres_row, f).t} = {"str", "UUID"}}

\* C16: rows whose common fields each hold an identifier as a text on one
\* side and as a UUID on the other are equal exactly when the canonical
\* forms of the two agree, whichever side holds the text and in whatever
\* letter case.
C16_IdentifierTextEquality ==
    (/\ call.op = "compare_rows"
     /\ call.case_sensitive
     /\ call.ignore_fields = <<>>
     /\ MixedIdentifierFields # {}
     /\ MixedIdentifierFields = KeySet(scylla_row) \cap KeySet(postgres_row))
    => result.equal =
           \A f \in MixedIdentifierFields :
               CanonicalUuid(DictGet(scylla_row, f).s) = CanonicalUuid(DictGet(postgres_row, f).s)

----------------------------------------------------------------------------
(* Two threads in compare_rows on one RowComparer: thread t compares       *)
(* source_data[t] with target_data[t].  A step of a thread is a read or a   *)
(* write of self.float_tolerance together with the thread-local work up to  *)
(* the next one.                                                            *)

Threads == {1, 2}

ThreadScyllaRows ==
    {<<Entry(fa, PyFloat(<<"1", ".", "0">>, 100000))>>,
     Row2(fa, PyFloat(<<"1", ".", "0">>, 100000), fb, PyFloat(<<"1", ".", "0">>, 100000))}

ThreadPostgresRows ==
    {<<Entry(fa, PyFloat(<<"1", ".", "0", "0", "5">>, 100500))>>,
     <<Entry(fa, PyFloat(<<"1", ".", "0", "0", "0", "0", "5">>, 100005))>>,
     Row2(fa, PyFloat(<<"1", ".", "0", "0", "0", "0", "5">>, 100005), fb, PyFloat(<<"1", ".", "0", "0", "5">>, 100500))}

InitThreads ==
    /\ source_data \in [Threads -> ThreadScyllaRows]
    /\ target_data \in [Threads -> ThreadPostgresRows]
    /\ key_field = [list |-> FALSE, fields |-> <<fa>>]
    /\ float_tolerance = FloatToleranceDefault
    /\ call = NoCall
    /\ result = NoResult
    /\ threads = [t \in Threads |-> [pc |-> "idle"]]
    /\ scylla = NoRows
    /\ postgres = NoPostgres
    /\ checkpoint = NoCheckpoint
    /\ run = NoRun

shared == <<source_data, target_data, key_field, call, result, scylla, postgres,
            checkpoint, run>>

\* thread t calls compare_rows(source_data[t], target_data[t], float_tolerance=tol)
EnterCompareRows(t) ==
    /\ threads[t].pc = "idle"
    /\ \E tol \in ToleranceArgs :
          threads' = [threads EXCEPT ![t] = [pc |-> "entered", float_tolerance |-> tol]]
    /\ UNCHANGED <<shared, float_tolerance>>

\* comparer.py 51-80: the argument, when given, is stored; the rows are
\* normalized and their common fields collected
StoreTolerance(t) ==
    /\ threads[t].pc = "entered"
    /\ float_tolerance' = IF threads[t].float_tolerance.t # "NoneType"
                          THEN threads[t].float_tolerance.n ELSE float_tolerance
    /\ threads' = [threads EXCEPT ![t] =
                      [pc |-> "comparing", float_tolerance |-> threads[t].float_tolerance,
                       common_fields |-> KeySet(source_data[t]) \cap KeySet(target_data[t])]]
    /\ UNCHANGED shared

\* comparer.py 83-92: the next common field, in the order the set gives it,
\* is compared with the tolerance self.float_tolerance holds now
CompareField(t) ==
    /\ threads[t].pc = "comparing"
    /\ \E f \in threads[t].common_fields :
          IF _values_equal(_normalize_value(DictGet(source_data[t], f)),
                           _normalize_value(DictGet(target_data[t], f)), float_tolerance)
          THEN threads' = [threads EXCEPT ![t].common_fields = @ \ {f}]
          ELSE threads' = [threads EXCEPT ![t] =
                              [pc |-> "returned",
                               float_tolerance |-> threads[t].float_tolerance,
                               equal |-> FALSE]]
    /\ UNCHANGED <<shared, float_tolerance>>

\* comparer.py 94
ReturnEqual(t) ==
    /\ threads[t].pc = "comparing"
    /\ threads[t].common_fields = {}
    /\ threads' = [threads EXCEPT ![t] =
                      [pc |-> "returned", float_tolerance |-> threads[t].float_tolerance,
                       equal |-> TRUE]]
    /\ UNCHANGED <<shared, float_tolerance>>

NextThreads ==
    \/ \E t \in Threads : EnterCompareRows(t)
    \/ \E t \in Threads : StoreTolerance(t)
    \/ \E t \in Threads : CompareField(t)
    \/ \E t \in Threads : ReturnEqual(t)

SpecThreads == InitThreads /\ [][NextThreads]_vars

\* what the call of thread t returns when no other thread runs
RunAlone(t) ==
    compare_rows(source_data[t], target_data[t], <<>>, TRUE,
                 IF threads[t].float_tolerance.t # "NoneType"
                 THEN threads[t].float_tolerance.n ELSE FloatToleranceDefault)

\* C13: a compare_rows call of one thread returns, whatever the other thread
\* does on the same comparer meanwhile, what it returns when run alone.
C13_ThreadsIndependent ==
    \A t \in Threads : threads[t].pc = "returned" => threads[t].equal = RunAlone(t)

----------------------------------------------------------------------------
(* Properties of the generated actions *)

\* how many actions of the kind a result lists
ActionCount(kind) ==
    Cardinality({i \in DOMAIN result.actions : result.actions[i].action_type = kind})

\* the row payload an action of the list is generated from
Payloads(kind) ==
    LET at == SelectSeq(result.actions, LAMBDA action : action.action_type = kind)
    IN  [i \in DOMAIN at |-> at[i].row_data]

\* C18: every action generate_repair_actions returns has its kind, the
\* schema-qualified table, the statement, the row it comes from, a timestamp,
\* the dry_run argument as its dry_run flag and the status pending; with
\* metadata it is tagged missing, extra or mismatch after its kind; and the
\* list holds one DELETE for each extra record, one INSERT for each missing
\* record and one UPDATE for each mismatch.
C18_ActionShape ==
    (call.op = "generate_repair_actions" /\ result.ok)
    => /\ \A i \in DOMAIN result.actions :
              LET action == result.actions[i]
              IN  /\ {"action_type", "table", "sql", "row_data", "timestamp",
                      "dry_run", "status"} \subseteq DOMAIN action
                  /\ action.action_type \in {"INSERT", "DELETE", "UPDATE"}
                  /\ action.table = call.schema \o <<".">> \o call.table_name
                  /\ action.sql # <<>>
                  /\ action.timestamp = Now
                  /\ action.dry_run = call.dry_run
                  /\ action.status = "pending"
                  /\ IF call.include_metadata
                     THEN /\ "generated_at" \in DOMAIN action
                          /\ action.discrepancy_type =
                                 CASE action.action_type = "INSERT" -> "missing"
                                   [] action.action_type = "DELETE" -> "extra"
                                   [] action.action_type = "UPDATE" -> "mismatch"
                     ELSE "discrepancy_type" \notin DOMAIN action
       /\ Payloads("DELETE") = call.discrepancies.extra
       /\ Payloads("INSERT") = call.discrepancies.missing
       /\ Payloads("UPDATE") =
              [i \in DOMAIN call.discrepancies.mismatches |->
                  call.discrepancies.mismatches[i].scylla]

C18_Witness ==
    /\ call.op = "generate_repair_actions"
    /\ result.ok
    /\ call.dry_run
    /\ call.include_metadata
    /\ ActionCount("DELETE") = 2
    /\ ActionCount("INSERT") = 1
    /\ ActionCount("UPDATE") = 2

----------------------------------------------------------------------------
(* scripts/reconcile.py: ReconciliationTool.  reconcile_table runs as a     *)
(* sequence of steps, one for each round trip to a store; run holds its     *)
(* locals.  postgres.statements lists what cursor.execute was called with   *)
(* on postgres_conn and how it ended, postgres.aborted tells that a         *)
(* statement failed in the open transaction, postgres.committed counts the  *)
(* statements a commit made durable.                                        *)

MaxFetches == 3

users == <<"u", "s", "e", "r", "s">>
cdc_data == <<"c", "d", "c", "_", "d", "a", "t", "a">>

\* fetch_scylla_data: the query is SELECT * FROM table LIMIT limit; the offset
\* argument does not reach it
fetch_scylla_data(table, limit, offset) == Slice(table, 0, limit)

\* fetch_postgres_data: SELECT * FROM schema.table LIMIT limit OFFSET offset
fetch_postgres_data(table, limit, offset) == Slice(table, offset, limit)

\* action[field] = value
With(action, field, value) ==
    [f \in DOMAIN action \cup {field} |-> IF f = field THEN value ELSE action[f]]

ToolScyllaRows ==
    {Row2(id, PyInt(1), v, PyStr(<<"a">>)), Row2(id, PyInt(2), v, PyStr(<<"a">>)),
     <<Entry(v, PyStr(<<"a">>))>>}

ToolPostgresRows ==
    {Row2(id, PyInt(1), v, PyStr(<<"b">>)), Row2(id, PyInt(2), v, PyStr(<<"a">>)),
     Row2(id, PyInt(3), v, PyStr(<<"a">>))}

\* a tool with its batch_size, the two tables, and the checkpoint file an
\* interrupted run may have left
InitTool ==
    /\ source_data = <<>>
    /\ target_data = <<>>
    /\ key_field = [list |-> FALSE, fields |-> <<id>>]
    /\ float_tolerance = FloatToleranceDefault
    /\ call = NoCall
    /\ result = NoResult
    /\ threads = NoThreads
    /\ scylla \in SeqsUpTo(ToolScyllaRows, MaxRows)
    /\ \E table \in SeqsUpTo(ToolPostgresRows, MaxRows) :
          postgres = [NoPostgres EXCEPT !.rows = table]
    /\ \E batch_size \in 1..MaxBatch :
          /\ run = [pc |-> "none", batch_size |-> batch_size]
          /\ checkpoint \in {NoCheckpoint,
                             [exists |-> TRUE, offset |-> batch_size, batch |-> 1]}

untouched == <<source_data, target_data, key_field, float_tolerance, threads, scylla>>

\* reconcile.py 351-376: the call is entered, the checkpoint loaded on resume
ReconcileTable ==
    /\ call = NoCall
    /\ run.pc = "none"
    /\ \E dry_run \in BOOLEAN, resume \in BOOLEAN :
          LET offset == IF resume /\ checkpoint.exists THEN checkpoint.offset ELSE 0
          IN  /\ call' = [op |-> "reconcile_table", dry_run |-> dry_run, resume |-> resume]
              /\ run' = [pc |-> "fetch",
                         batch_size |-> run.batch_size,
                         dry_run |-> dry_run,
                         total_processed |-> offset,
                         batch_num |-> 0,
                         all_scylla_data |-> <<>>,
                         all_postgres_data |-> <<>>,
                         summary |-> NoResult,
                         discrepancies |-> NoResult,
                         actions |-> <<>>,
                         executed_actions |-> <<>>,
                         i |-> 0]
    /\ UNCHANGED <<result, postgres, checkpoint, untouched>>

\* reconcile.py 378-413: one turn of the fetch loop
FetchBatch ==
    /\ run.pc = "fetch"
    /\ run.batch_num < MaxFetches
    /\ LET scylla_batch == fetch_scylla_data(scylla, run.batch_size, run.total_processed)
           postgres_batch ==
               fetch_postgres_data(postgres.rows, run.batch_size, run.total_processed)
           total_processed == run.total_processed + run.batch_size
           batch_num == run.batch_num + 1
       IN  /\ run' = [run EXCEPT
                         !.all_scylla_data = @ \o scylla_batch,
                         !.all_postgres_data = @ \o postgres_batch,
                         !.total_processed = total_processed,
                         !.batch_num = batch_num,
                         !.pc = IF /\ Len(scylla_batch) < run.batch_size
                                   /\ Len(postgres_batch) < run.batch_size
                                THEN "analyze" ELSE "fetch"]
           /\ checkpoint' = [exists |-> TRUE, offset |-> total_processed, batch |-> batch_num]
    /\ UNCHANGED <<call, result, postgres, untouched>>

\* Mutant: the repairs are executed in a dry run too
AfterGenerateAlways(dry_run, actions) == IF actions # <<>> THEN "execute" ELSE "finish"

\* reconcile.py 450-457: where reconcile_table goes on with the generated actions
AfterGenerate(dry_run, actions) ==
    IF ~dry_run /\ actions # <<>> THEN "execute" ELSE "finish"

\* reconcile.py 420-437: the discrepancies and their summary; an exception
\* leaves reconcile_table through its finally clause
Analyze ==
    /\ run.pc = "analyze"
    /\ \E discrepancies \in find_all_discrepancies(run.all_scylla_data, run.all_postgres_data,
                                                  key_field, <<>>) :
          IF ~discrepancies.ok
          THEN /\ result' = discrepancies
               /\ run' = [run EXCEPT !.pc = "raised"]
          ELSE /\ result' = result
               /\ run' = [run EXCEPT
                             !.discrepancies = discrepancies,
                             !.summary = get_discrepancy_summary(
                                             run.all_scylla_data, run.all_postgres_data,
                                             key_field, <<>>),
                             !.pc = "generate"]
    /\ UNCHANGED <<call, postgres, checkpoint, untouched>>

\* reconcile.py 439-457: the repair actions of the discrepancies
GenerateActions ==
    /\ run.pc = "generate"
    /\ \E generated \in {generate_repair_actions(run.discrepancies, users, cdc_data, key_field,
                                                  run.dry_run, TRUE, TRUE)} :
           IF ~generated.ok
           THEN /\ result' = generated
                /\ run' = [run EXCEPT !.pc = "raised"]
           ELSE /\ result' = result
                /\ run' = [run EXCEPT
                              !.actions = generated.actions,
                              !.pc = AfterGenerate(run.dry_run, generated.actions)]
    /\ UNCHANGED <<call, postgres, checkpoint, untouched>>

\* what cursor.execute may do: a statement in a transaction that has seen a
\* failure is refused
Outcomes == IF postgres.aborted THEN {"error"} ELSE {"ok", "error"}

\* Mutant: the loop is left at the first action that fails
ExecuteActionStopping ==
    /\ run.pc = "execute"
    /\ run.i < Len(run.actions)
    /\ \E outcome \in Outcomes :
          LET action == run.actions[run.i + 1]
              executed == With(With(action, "status", "executed"), "executed_at", Now)
              failed == With(With(action, "status", "failed"), "error", outcome)
          IN  /\ postgres' = [postgres EXCEPT
                                 !.statements = Append(@, [sql |-> action.sql,
                                                           outcome |-> outcome]),
                                 !.aborted = @ \/ outcome = "error"]
              /\ run' = IF outcome = "ok"
                        THEN [run EXCEPT !.actions[run.i + 1] = executed,
                                         !.executed_actions = Append(@, executed),
                                         !.i = @ + 1]
                        ELSE [run EXCEPT !.actions[run.i + 1] = failed,
                                         !.i = Len(run.actions)]
    /\ UNCHANGED <<call, result, checkpoint, untouched>>

\* reconcile.py 508-520: one turn of the loop of execute_repairs.  executed
\* holds the action objects of the list; they are not written again once
\* appended.
ExecuteAction ==
    /\ run.pc = "execute"
    /\ run.i < Len(run.actions)
    /\ \E outcome \in Outcomes :
          LET action == run.actions[run.i + 1]
              executed == With(With(action, "status", "executed"), "executed_at", Now)
              failed == With(With(action, "status", "failed"), "error", outcome)
          IN  /\ postgres' = [postgres EXCEPT
                                 !.statements = Append(@, [sql |-> action.sql,
                                                           outcome |-> outcome]),
                                 !.aborted = @ \/ outcome = "error"]
              /\ run' = IF outcome = "ok"
                        THEN [run EXCEPT !.actions[run.i + 1] = executed,
                                         !.executed_actions = Append(@, executed),
                                         !.i = @ + 1]
                        ELSE [run EXCEPT !.actions[run.i + 1] = failed,
                                         !.i = @ + 1]
    /\ UNCHANGED <<call, result, checkpoint, untouched>>

\* reconcile.py 522 and 453-455: execute_repairs returns executed and the
\* transaction is committed; the commit of a transaction that has seen a
\* failure rolls it back
Commit ==
    /\ run.pc = "execute"
    /\ run.i = Len(run.actions)
    /\ postgres' = [postgres EXCEPT
                       !.committed = IF postgres.aborted THEN 0
                                     ELSE Len(SelectSeq(postgres.statements,
                                                        LAMBDA st : st.outcome = "ok")),
                       !.aborted = FALSE]
    /\ run' = [run EXCEPT !.pc = "finish"]
    /\ UNCHANGED <<call, result, checkpoint, untouched>>

\* reconcile.py 459-484: the checkpoint is cleared and the results returned
Finish ==
    /\ run.pc = "finish"
    /\ checkpoint' = NoCheckpoint
    /\ result' = [ok |-> TRUE,
                  table |-> users,
                  dry_run |-> run.dry_run,
                  summary |-> run.summary,
                  discrepancies |->
                      [missing_count |-> Len(run.discrepancies.missing),
                       extra_count |-> Len(run.discrepancies.extra),
                       mismatch_count |-> Len(run.discrepancies.mismatches)],
                  actions_generated |-> Len(run.actions),
                  actions_executed |-> IF ~run.dry_run THEN Len(run.executed_actions) ELSE 0]
    /\ run' = [run EXCEPT !.pc = "returned"]
    /\ UNCHANGED <<call, postgres, untouched>>

NextTool ==
    \/ ReconcileTable
    \/ FetchBatch
    \/ Analyze
    \/ GenerateActions
    \/ ExecuteAction
    \/ Commit
    \/ Finish

SpecTool == InitTool /\ [][NextTool]_vars

----------------------------------------------------------------------------
(* Properties of reconcile_table and execute_repairs *)

\* the loop of execute_repairs has started: the statements the cursor was
\* given are the sql of the first run.i actions
Executing == run.pc \in {"execute", "finish", "returned"}

StatusOf(outcome) == IF outcome = "ok" THEN "executed" ELSE "failed"

AttemptedOnceInOrder ==
    /\ Len(postgres.statements) = run.i
    /\ \A j \in 1..Len(run.actions) :
          IF j <= run.i
          THEN /\ postgres.statements[j].sql = run.actions[j].sql
               /\ run.actions[j].status = StatusOf(postgres.statements[j].outcome)
          ELSE run.actions[j].status = "pending"
    /\ (run.pc # "execute" /\ ~run.dry_run) => run.i = Len(run.actions)

ReturnedAreExecuted ==
    run.executed_actions = SelectSeq(run.actions, LAMBDA a : a.status = "executed")

\* a step changes the status of the action the loop is at only, from pending
\* to executed or failed
StatusMovesOnce ==
    Executing =>
        \A j \in 1..Len(run.actions) :
            run'.actions[j].status # run.actions[j].status =>
                /\ j = run.i + 1
                /\ run.actions[j].status = "pending"
                /\ run'.actions[j].status \in {"executed", "failed"}
                /\ run'.i = j

\* C19: during execute_repairs every action is attempted exactly once, in list
\* order; the status of an action moves from pending to one of executed and
\* failed and does not change again; a failed action is not retried and does
\* not keep the later ones from being attempted; the list returned holds
\* exactly the actions whose status is executed
C19_ExecuteRepairs ==
    /\ [](Executing => AttemptedOnceInOrder /\ ReturnedAreExecuted)
    /\ [][StatusMovesOnce]_vars

\* three actions were attempted, the first executed, the second failed and the
\* third was attempted all the same
C19_Witness ==
    /\ run.pc = "returned"
    /\ ~run.dry_run
    /\ Len(run.actions) = 3
    /\ Len(postgres.statements) = 3
    /\ run.actions[1].status = "executed"
    /\ run.actions[2].status = "failed"
    /\ run.actions[3].status = "failed"
    /\ Len(run.executed_actions) = 1

\* C20: in a dry run of reconcile_table the repair actions are generated,
\* execute_repairs is not entered and nothing is executed on or committed to
\* the target; every generated action stays pending with dry_run true, and the
\* result has actions_executed = 0 and actions_generated = the number of actions
C20_DryRunExecutesNothing ==
    (run.pc # "none" /\ run.dry_run) =>
        /\ run.pc # "execute"
        /\ run.i = 0
        /\ run.executed_actions = <<>>
        /\ postgres.statements = <<>>
        /\ postgres.committed = 0
        /\ \A j \in 1..Len(run.actions) :
              /\ run.actions[j].status = "pending"
              /\ run.actions[j].dry_run = TRUE
        /\ run.pc = "returned" =>
              /\ result.ok
              /\ result.dry_run = TRUE
              /\ result.actions_executed = 0
              /\ result.actions_generated = Len(run.actions)

\* a dry run has returned with three generated actions
C20_Witness ==
    /\ run.pc = "returned"
    /\ run.dry_run
    /\ Len(run.actions) = 3
    /\ result.actions_generated = 3
    /\ result.actions_executed = 0

----------------------------------------------------------------------------
(* Properties of the literals and statements of the repairer *)

StartsWith(text, prefix) ==
    /\ Len(text) >= Len(prefix)
    /\ SubSeq(text, 1, Len(prefix)) = prefix

\* C21: _format_value chooses the literal by the type of the value: NULL for
\* None, TRUE or FALSE for a bool, the bare str() for an int, a float and a
\* Decimal, the hex bytea literal '\x...' for bytes, INTERVAL '... seconds' for
\* a timedelta and the single-quoted isoformat() for a datetime
C21_LiteralByType ==
    call.op = "_format_value" =>
        LET value == call.value
        IN  /\ result.ok
            /\ value.t = "NoneType" => result.text = <<"N", "U", "L", "L">>
            /\ value.t = "bool" => result.text \in {<<"T", "R", "U", "E">>, <<"F", "A", "L", "S", "E">>}
            /\ value.t \in {"int", "float", "Decimal"} => result.text = value.s
            /\ value.t = "bytes" => StartsWith(result.text, <<"'", "\\", "x">>)
            /\ value.t = "timedelta" => StartsWith(result.text, <<"I", "N", "T", "E", "R", "V", "A", "L", " ", "'">>)
            /\ value.t = "datetime" => result.text = <<"'">> \o value.s \o <<"'">>

\* the fields of the source payload the target payload has too, with another
\* raw value
DifferingFields(mismatch) ==
    {f \in KeySet(mismatch.scylla) :
        /\ f \in KeySet(mismatch.postgres)
        /\ ~PyEq(DictGet(mismatch.scylla, f), DictGet(mismatch.postgres, f))}

\* field = literal of the source value, for the fields in their order
SetClauseOf(row, fields) ==
    Join(<<",", " ">>, [i \in DOMAIN fields |->
        fields[i] \o <<" ", "=", " ">> \o _format_value(DictGet(row, fields[i])).text])

\* C22: generate_update_sql sets exactly the fields both payloads have with
\* differing raw values, each to the source value; only when there is none
\* does it set every source field that is not a key field, and then no key field
C22_UpdateFieldSelection ==
    (call.op = "generate_update_sql" /\ result.ok) =>
        LET mismatch == call.mismatch
            fields == result.updated_fields
        IN  /\ \A i, j \in DOMAIN fields : fields[i] = fields[j] => i = j
            /\ Range(fields) =
                   IF DifferingFields(mismatch) # {} THEN DifferingFields(mismatch)
                   ELSE KeySet(mismatch.scylla) \ Range(key_field.fields)
            /\ StartsWith(result.sql,
                   <<"U", "P", "D", "A", "T", "E", " ">>
                   \o _format_table_name(call.schema, call.table_name, call.quote_identifiers)
                   \o <<" ", "S", "E", "T", " ">> \o SetClauseOf(mismatch.scylla, fields) \o <<" ", "W", "H", "E", "R", "E", " ">>)

\* the source payload has the value of the target for id and another one for v
C22_Witness ==
    /\ call.op = "generate_update_sql"
    /\ result.ok
    /\ KeySet(call.mismatch.scylla) = {id, v}
    /\ KeySet(call.mismatch.postgres) = {id, v}
    /\ DifferingFields(call.mismatch) = {v}
    /\ result.updated_fields = <<v>>

\* no field differs and the fields of the source payload but the key are set
C22_FallbackWitness ==
    /\ call.op = "generate_update_sql"
    /\ result.ok
    /\ DifferingFields(call.mismatch) = {}
    /\ id \in KeySet(call.mismatch.scylla)
    /\ result.updated_fields = <<v>>

\* the number of places at which sub occurs in s
CountSub(s, sub) ==
    Cardinality({i \in 0..(Len(s) - Len(sub)) : SubSeq(s, i + 1, i + Len(sub)) = sub})

\* the rows an INSERT action covers: the chunk of a batch action, the one row
\* of a single one
CoveredRows(action) ==
    IF "batch_size" \in DOMAIN action THEN action.row_data ELSE <<action.row_data>>

Min(a, b) == IF a <= b THEN a ELSE b

\* C23: for missing rows and a positive batch size N, generate_insert_actions
\* returns ceil(len(rows) / N) INSERT actions, the k-th covering the rows
\* k*N .. min((k+1)*N, len(rows)) - 1 in input order, one values tuple a row
C23_InsertChunks ==
    (call.op = "generate_insert_actions" /\ call.missing_rows # <<>>
        /\ call.batch_size >= 1 /\ result.ok) =>
        LET missing_rows == call.missing_rows
            N == call.batch_size
            actions == result.actions
        IN  /\ Len(actions) = (Len(missing_rows) + N - 1) \div N
            /\ \A k \in DOMAIN actions :
                  /\ actions[k].action_type = "INSERT"
                  /\ CoveredRows(actions[k]) =
                         SubSeq(missing_rows, (k - 1) * N + 1, Min(k * N, Len(missing_rows)))
                  /\ CountSub(actions[k].sql, <<",", "\n">>)
                         = Len(CoveredRows(actions[k])) - 1
                  /\ k < Len(actions) => Len(CoveredRows(actions[k])) = N

\* three different rows in chunks of two: a full chunk and a chunk of one row
C23_Witness ==
    /\ call.op = "generate_insert_actions"
    /\ call.batch_size = 2
    /\ Len(call.missing_rows) = 3
    /\ call.missing_rows[1] # call.missing_rows[2]
    /\ call.missing_rows[2] # call.missing_rows[3]
    /\ result.ok
    /\ Len(result.actions) = 2
    /\ Len(result.actions[2].row_data) = 1

----------------------------------------------------------------------------
(* Properties of indexing and of duplicate keys *)

\* how often key k occurs in data
Occurrences(data, k) == Cardinality({i \in DOMAIN data : KeyOf(data[i]) = k})

\* C24: over a collection in which records share a key, build_key_index does
\* not raise and maps the key to the last of these records, one entry for each
\* distinct key; find_duplicates over the same collection reports the key with
\* the number of all its occurrences
C24_DuplicateKeys ==
    /\ (call.op = "build_key_index" /\ call.case_sensitive_keys /\ AllWellFormed(Indexing)) =>
          /\ result.ok
          /\ KeySet(result.index) = KeysOf(Indexing)
          /\ Len(result.index) = Cardinality(KeysOf(Indexing))
          /\ \A k \in KeysOf(Indexing) : DictGet(result.index, k) = Indexed(Indexing, k)
    /\ (call.op = "find_duplicates" /\ AllWellFormed(Indexing)) =>
          /\ result.ok
          /\ \A k \in KeysOf(Indexing) :
                Occurrences(Indexing, k) > 1 =>
                    Cardinality({n \in DOMAIN result.duplicates :
                                    result.duplicates[n].key = k}) = 1
          /\ \A n \in DOMAIN result.duplicates :
                /\ result.duplicates[n].count > 1
                /\ result.duplicates[n].count = Occurrences(Indexing, result.duplicates[n].key)

\* two different records of one key were indexed: the index holds the second
C24_Witness ==
    /\ call.op = "build_key_index"
    /\ call.case_sensitive_keys
    /\ Len(Indexing) = 2
    /\ AllWellFormed(Indexing)
    /\ KeyOf(Indexing[1]) = KeyOf(Indexing[2])
    /\ Indexing[1] # Indexing[2]
    /\ result.ok
    /\ Len(result.index) = 1
    /\ result.index[1].v = Indexing[2]

\* find_duplicates has counted the two records of the one key
C24_DuplicatesWitness ==
    /\ call.op = "find_duplicates"
    /\ Len(Indexing) = 2
    /\ Indexing[1] # Indexing[2]
    /\ result.ok
    /\ Len(result.duplicates) = 1
    /\ result.duplicates[1].count = 2

----------------------------------------------------------------------------
(* The repairs of a difference applied to the target, and the difference
   taken again: find_all_discrepancies, generate_repair_actions, the
   statements, find_all_discrepancies *)

ConvergeSourceRows ==
    {Row2(id, PyInt(1), v, PyStr(<<"a">>)),
     Row2(id, PyInt(1), v, PyNaN),
     Row2(id, PyInt(2), v, PyFloat(<<"1", ".", "0">>, 100000)),
     Row3(id, PyInt(3), v, PyStr(<<"a">>), w, PyNone),
     Row3(id, PyInt(5), v, PyStr(<<"a">>), w, PyFloat(<<"1", ".", "0">>, 100000))}

ConvergeTargetRows ==
    {Row2(id, PyInt(1), v, PyStr(<<"b">>)),
     Row2(id, PyStr(<<"1">>), v, PyStr(<<"a">>)),
     Row2(id, PyInt(2), v, PyFloat(<<"1", ".", "5">>, 150000)),
     Row2(id, PyInt(3), v, PyStr(<<"b">>)),
     Row2(id, PyInt(4), v, PyNone),
     Row3(id, PyInt(5), v, PyStr(<<"b">>),
          w, PyFloat(<<"1", ".", "0", "0", "0", "0", "5">>, 100005))}

\* no two records of data have one key
UniqueKeys(data) ==
    \A i, j \in DOMAIN data :
        _extract_key(data[i], key_field, TRUE).key = _extract_key(data[j], key_field, TRUE).key
            => i = j

\* the tables before a reconciliation; postgres.rows is the target the
\* statements are run on
InitConverge ==
    /\ key_field = [list |-> FALSE, fields |-> <<id>>]
    /\ source_data \in SeqsUpTo(ConvergeSourceRows, MaxRows)
    /\ target_data \in SeqsUpTo(ConvergeTargetRows, MaxRows)
    /\ UniqueKeys(source_data)
    /\ UniqueKeys(target_data)
    /\ float_tolerance = FloatToleranceDefault
    /\ call = NoCall
    /\ result = NoResult
    /\ threads = NoThreads
    /\ scylla = NoRows
    /\ postgres = [NoPostgres EXCEPT !.rows = target_data]
    /\ checkpoint = NoCheckpoint
    /\ run = [pc |-> "diff"]

fixed == <<source_data, target_data, key_field, float_tolerance, threads, scylla, checkpoint>>

\* reconcile.py 420-427
FindDiscrepancies ==
    /\ run.pc = "diff"
    /\ \E discrepancies \in find_all_discrepancies(source_data, target_data, key_field, <<>>) :
          /\ call' = [op |-> "find_all_discrepancies"]
          /\ run' = IF discrepancies.ok
                    THEN [pc |-> "generate", discrepancies |-> discrepancies]
                    ELSE [pc |-> "raised"]
    /\ UNCHANGED <<result, postgres, fixed>>

\* reconcile.py 440-446
GenerateRepairs ==
    /\ run.pc = "generate"
    /\ \E generated \in {generate_repair_actions(run.discrepancies, users, cdc_data, key_field,
                                                  FALSE, TRUE, TRUE)} :
          /\ call' = [op |-> "generate_repair_actions"]
          /\ run' = IF generated.ok
                    THEN [pc |-> "apply", discrepancies |-> run.discrepancies,
                          actions |-> generated.actions, i |-> 0]
                    ELSE [pc |-> "raised"]
    /\ UNCHANGED <<result, postgres, fixed>>

\* what the statement of an action does to the rows of the table: DELETE
\* removes the record of the key, INSERT adds the record, UPDATE sets the
\* updated fields of the record of the key
ApplyTo(table, action) ==
    LET same_key(row) == _extract_key(row, key_field, TRUE).key
                             = _extract_key(action.row_data, key_field, TRUE).key
    IN  CASE action.action_type = "DELETE" ->
                 SelectSeq(table, LAMBDA row : ~same_key(row))
          [] action.action_type = "INSERT" ->
                 Append(table, action.row_data)
          [] action.action_type = "UPDATE" ->
                 [n \in DOMAIN table |->
                     IF ~same_key(table[n]) THEN table[n]
                     ELSE [m \in DOMAIN table[n] |->
                              IF table[n][m].k \in Range(action.updated_fields)
                              THEN Entry(table[n][m].k, DictGet(action.row_data, table[n][m].k))
                              ELSE table[n][m]]]

\* reconcile.py 508-512: the statements in list order
ApplyAction ==
    /\ run.pc = "apply"
    /\ run.i < Len(run.actions)
    /\ postgres' = [postgres EXCEPT !.rows = ApplyTo(@, run.actions[run.i + 1])]
    /\ run' = [run EXCEPT !.i = @ + 1]
    /\ UNCHANGED <<call, result, fixed>>

\* the difference of the source and the repaired target
FindDiscrepanciesAgain ==
    /\ run.pc = "apply"
    /\ run.i = Len(run.actions)
    /\ \E discrepancies \in find_all_discrepancies(source_data, postgres.rows, key_field, <<>>) :
          /\ call' = [op |-> "find_all_discrepancies"]
          /\ result' = discrepancies
    /\ run' = [run EXCEPT !.pc = "done"]
    /\ UNCHANGED <<postgres, fixed>>

NextConverge ==
    \/ FindDiscrepancies
    \/ GenerateRepairs
    \/ ApplyAction
    \/ FindDiscrepanciesAgain

SpecConverge == InitConverge /\ [][NextConverge]_vars

\* C25: for a source and a target with unique well-formed keys, the actions
\* of generate_repair_actions(find_all_discrepancies(source, target)) applied
\* to the target in list order leave a target for which
\* find_all_discrepancies against the source has no missing, no extra and no
\* mismatched record
C25_RepairConverges ==
    run.pc = "done" =>
        /\ result.ok
        /\ result.missing = <<>>
        /\ result.extra = <<>>
        /\ result.mismatches = <<>>

\* the same for the sources that hold no NaN
ConvergesWithoutNaN ==
    (run.pc = "done"
        /\ \A i \in DOMAIN source_data : ~IsNaN(DictGet(source_data[i], v))) =>
        /\ result.ok
        /\ result.missing = <<>>
        /\ result.extra = <<>>
        /\ result.mismatches = <<>>

----------------------------------------------------------------------------
(* Termination of the fetch loop of reconcile_table *)

\* the loop runs on: a turn that can be taken is taken.  A loop that is still
\* fetching after MaxFetches turns, more than two tables of MaxRows rows need
\* at any batch size, is followed no further.
SpecToolFair == SpecTool /\ WF_vars(FetchBatch)

----------------------------------------------------------------------------
(* What the fetch loop has accumulated when it ends *)

\* the loop of a run has ended and the differences are not yet taken
LoopEnded == run.pc = "analyze"

\* C27: when the fetch loop of a run that was not resumed ends, the
\* accumulated source collection holds every row of the source table once and
\* the accumulated target collection every row of the target table once,
\* whatever the number of turns
C27_AccumulatedOnce ==
    (LoopEnded /\ ~call.resume) =>
        /\ run.all_scylla_data = scylla
        /\ run.all_postgres_data = postgres.rows

----------------------------------------------------------------------------
(* A resumed run against an uninterrupted one *)

TableKeys(table) == {_extract_key(table[i], key_field, TRUE).key : i \in DOMAIN table}

\* the record of key k in a table of unique keys
TableRow(table, k) ==
    table[CHOOSE i \in DOMAIN table : _extract_key(table[i], key_field, TRUE).key = k]

\* the keys the differences of the two whole tables have
TableMissing == TableKeys(scylla) \ TableKeys(postgres.rows)
TableExtra == TableKeys(postgres.rows) \ TableKeys(scylla)
TableMismatched ==
    {k \in TableKeys(scylla) \cap TableKeys(postgres.rows) :
        ~compare_rows(TableRow(scylla, k), TableRow(postgres.rows, k), <<>>, TRUE,
                      FloatToleranceDefault)}

\* the run has taken the differences, and the statements have not yet changed
\* the target
Reported == run.pc \in {"generate", "finish"} \/ (run.pc = "execute" /\ run.i = 0)

ReportedKeys(records) == {_extract_key(records[i], key_field, TRUE).key : i \in DOMAIN records}

ReportsTableDifferences ==
    /\ ReportedKeys(run.discrepancies.missing) = TableMissing
    /\ ReportedKeys(run.discrepancies.extra) = TableExtra
    /\ {run.discrepancies.mismatches[i].key : i \in DOMAIN run.discrepancies.mismatches}
           = TableMismatched

\* a run that goes through both tables from the start reports the differences
\* of the tables
UninterruptedReportsTable ==
    (Reported /\ run.total_processed = run.batch_num * run.batch_size) =>
        ReportsTableDifferences

\* C28: a run resumed from the checkpoint an interrupted run has left reports
\* the missing, extra and mismatched keys of one uninterrupted run over the
\* same tables; no row the target holds before the checkpoint offset is
\* reported as missing
C28_ResumeTransparent ==
    (Reported /\ call.resume /\ run.total_processed > run.batch_num * run.batch_size) =>
        ReportsTableDifferences

----------------------------------------------------------------------------
(* Properties of the batch INSERT and of the fields of an UPDATE *)

\* the values tuple of a row that has exactly the columns
ValuesTuple(row, columns) ==
    <<"(">> \o Join(<<",", " ">>, [i \in DOMAIN columns |->
                                      _format_value(DictGet(row, columns[i])).text])
    \o <<")">>

\* C29: a batch INSERT loses no data: every field of every row of the chunk,
\* also of a row with other fields than the first row, is a column of the
\* statement and has its value in the values tuple of the row, and every
\* values tuple has a value for each column
C29_BatchInsertKeepsAll ==
    (call.op = "_generate_batch_insert_sql" /\ result.ok) =>
        LET columns == DictKeys(call.rows[1])
        IN  \A r \in DOMAIN call.rows :
                /\ KeySet(call.rows[r]) \subseteq Range(columns)
                /\ KeySet(call.rows[r]) = Range(columns) =>
                       Contains(result.sql, ValuesTuple(call.rows[r], columns))

\* the UPDATE actions of the run, each with the mismatch it was generated for:
\* generate_update_actions keeps the order of the mismatches
UpdateActions == SelectSeq(run.actions, LAMBDA action : action.action_type = "UPDATE")

\* C30: the UPDATE generated for a mismatch that find_mismatches reports sets
\* a field only if compare_rows_detailed lists it among the differing fields
\* of the two records: no field the comparer holds equal, such as floats
\* within the tolerance, and no key field
C30_UpdateAgreesWithComparer ==
    (run.pc = "apply" /\ run.i = 0) =>
        \A n \in DOMAIN UpdateActions :
            LET mismatch == run.discrepancies.mismatches[n]
                detailed == compare_rows_detailed(mismatch.scylla, mismatch.postgres, <<>>,
                                                  FloatToleranceDefault)
            IN  /\ UpdateActions[n].row_data = mismatch.scylla
                /\ Range(UpdateActions[n].updated_fields) \subseteq detailed.differing_fields
                /\ Range(UpdateActions[n].updated_fields) \cap Range(key_field.fields) = {}

====
